---- MODULE Spec2Model ----
(***************************************************************************)
(* Budget ledger and allocation engine of the budgeting app                *)
(* (src/script.js, first variant, lines 1-1429).                           *)
(*                                                                         *)
(* Amounts are whole currency units.  A calendar date 'yyyy-MM-dd' is a    *)
(* day number; the month key 'yyyy-MM' of a date is MonthOf(date).  A uuid *)
(* is the next value of a counter.  Text inputs are the values after       *)
(* trim(); number inputs are the values after parseFloat, 0 standing for   *)
(* every rejected value (empty, NaN, zero).  A handler that only opens a   *)
(* modal and remembers a selection (handleEditTransaction,                 *)
(* handleRecordPayment, handleAssignFunds, the duplicate confirmation) is  *)
(* folded into the handler of the button that closes the modal: nothing    *)
(* else can run while the modal is shown.  A confirm() dialog that is      *)
(* declined changes nothing at all and is a stuttering step.               *)
(***************************************************************************)
EXTENDS Integers, Sequences, FiniteSets, TLC

\* ---------------------------------------------------------------- bounds
MaxMonth == 1          \* month keys are 0..MaxMonth
DaysPerMonth == 2      \* days modelled in each month
MaxAmount == 2         \* amounts typed by the user are 0..MaxAmount
MaxSteps == 3          \* handlers run in one session, all handlers offered
AllocSteps == 5        \* the same, allocation handlers offered
LedgerSteps == 4       \* the same, transaction handlers offered
DebtSteps == 5         \* the same, debt handlers offered
GoalSteps == 4         \* the same, goal handlers offered
CacheSteps == 4        \* operations run in one session of the caching variant
FileSteps == 2         \* handlers run while writes are in flight
SaveSteps == 3         \* the same, every write going through
RoundSteps == 5        \* handlers and page loads run over one data file
SortSteps == 4         \* handlers run in a session that orders the debt table
MonthSteps == 4        \* handlers run in a session that follows the month keys
BulkSteps == 3         \* handlers run in a session that adds transactions in bulk
ExpenseSteps == 4      \* the same, every transaction dated today
LoadSteps == 3         \* handlers and page loads over a file others write too
MaxLines == 2          \* lines in the text area of a bulk add
TodayMonth == 0        \* the month of new Date()

Months == 0..MaxMonth
Dates == 0..((MaxMonth + 1) * DaysPerMonth - 1)
Today == TodayMonth * DaysPerMonth + 1
Amounts == 0..MaxAmount
\* dates typed into the transaction forms: both days of the first month and the
\* first day of every later month
TxDates == {d \in Dates : d < DaysPerMonth \/ d % DaysPerMonth = 0}
NoCat == 0             \* the '' option of a category select / categoryId null
DebtName == "n"
PaymentDescription == "Payment to n"
\* descriptions and amounts typed into the transaction forms
Descriptions == {PaymentDescription}
TxAmounts == {0, MaxAmount}
\* dates and amounts offered where only transaction handlers run
LedgerDates == {Today, DaysPerMonth}
LedgerAmounts == {0, 1, MaxAmount}
\* type and category offered there: an income without category, an expense
\* with any category or none
LedgerKinds(cats) == {<<"income", NoCat>>} \cup {<<"expense", c>> : c \in cats \cup {NoCat}}
NameInputs == {"", "food", "Food"}

\* the lines of a bulk add: date, amount, category name, description, type
BulkLines(dates) ==
    [date : dates, amount : {MaxAmount}, categoryName : {"", "Food"},
     description : {PaymentDescription}, type : {"income", "expense"}]

\* the text areas of a bulk add
BulkTexts(dates) == UNION {[1..n -> BulkLines(dates)] : n \in 1..MaxLines}

GoalNames == {"", "food"}
DebtBalances == {1, MaxAmount}
DebtPaymentsName == "Debt Payments"
RECURSIVE Factorial(_)
Factorial(n) == IF n <= 1 THEN 1 ELSE n * Factorial(n - 1)
\* goal totals typed by the user: a rejected one and one that every possible
\* number of months divides exactly
GoalAmounts == {0, Factorial(MaxMonth - TodayMonth + 1)}
\* due dates typed by the user: today and the first day of every month
GoalDates == {Today} \cup {m * DaysPerMonth : m \in Months}

\* ------------------------------------------------------- date utilities
\* format(parseISO(date), 'yyyy-MM')
MonthOf(date) == date \div DaysPerMonth

\* startOfMonth(new Date())
startOfMonth(date) == MonthOf(date) * DaysPerMonth

\* differenceInCalendarMonths(endDate, startDate)
differenceInCalendarMonths(endDate, startDate) == MonthOf(endDate) - MonthOf(startDate)

\* String.prototype.toLowerCase on the names that occur
toLowerCase(name) ==
    CASE name = "Food" -> "food"
      [] name = "Debt Payments" -> "debt payments"
      [] OTHER -> name

\* ------------------------------------------------------------ the state
VARIABLES
    budgets,        \* month key -> [categories: id -> assigned, transactions: list]
    debtList,       \* list of debts
    goals,          \* list of goals
    categories,     \* id -> [name, parentCategory, isActive]
    currentMonth,   \* the month displayed
    readyToAssign,  \* the pool
    fileHandle,     \* TRUE when a data file is selected
    disk,           \* the document in the data file
    writes,         \* the writeFile calls that have not settled yet
    io,             \* how the file system schedules a write (see writeFile)
    debtViewMethod, \* the order the debt table is shown in
    phase,          \* "loading" until initApp has run, then "ready"
    nextId,         \* number of uuids handed out
    paid,           \* history: sum of the debt payments recorded in this document
    steps,          \* history: number of handlers run so far
    limit,          \* history: number of handlers the session may run
    last            \* history: the handler that ran last and how it ended

vars == <<budgets, debtList, goals, categories, currentMonth, readyToAssign,
          fileHandle, disk, writes, io, debtViewMethod, phase, nextId, paid, steps,
          limit, last>>

aggregate == <<budgets, debtList, goals, categories, readyToAssign>>

\* ------------------------------------------------------------- helpers
EmptyMonth == [categories |-> <<>>, transactions |-> <<>>]

EmptyDocument ==
    [monthlyBudgets |-> <<>>, debtList |-> <<>>, goals |-> <<>>,
     categories |-> <<>>, readyToAssign |-> 0]

\* a lookup that hands out a fresh ledger every time
getMonthData_fresh(b, month) == (month :> EmptyMonth) @@ b

\* getMonthData(month): the budgets after the lazy creation of the month
getMonthData(b, month) ==
    IF month \in DOMAIN b THEN b ELSE (month :> EmptyMonth) @@ b

\* monthData.categories[categoryId]?.assigned || 0
Assigned(b, month, categoryId) ==
    IF month \in DOMAIN b /\ categoryId \in DOMAIN b[month].categories
    THEN b[month].categories[categoryId]
    ELSE 0

\* monthData.categories[categoryId] = { assigned: value } in an existing month
SetAssigned(b, month, categoryId, value) ==
    [b EXCEPT ![month].categories = (categoryId :> value) @@ @]

\* monthData.transactions.push(transaction) in an existing month
PushTransaction(b, month, transaction) ==
    [b EXCEPT ![month].transactions = Append(@, transaction)]

\* a splice that removes nothing
Splice_keep(seq, index) == seq

\* array.splice(index, 1)
Splice(seq, index) ==
    [i \in 1..(Len(seq) - 1) |-> IF i < index THEN seq[i] ELSE seq[i + 1]]

RECURSIVE SumSeq(_)
SumSeq(seq) == IF seq = <<>> THEN 0 ELSE Head(seq) + SumSeq(Tail(seq))

\* array.filter(pred).reduce((sum, t) => sum + t.amount, 0), pred given as a set
SumAmounts(seq, keep) ==
    SumSeq([i \in 1..Len(SelectSeq(seq, LAMBDA t : t \in keep)) |->
               SelectSeq(seq, LAMBDA t : t \in keep)[i].amount])

\* renderUI(): its only effect on the state is getMonthData(currentMonth)
renderUI(b, month) == getMonthData(b, month)

\* a category that is handed its id and never entered in the registry
addPersistentCategory_unregistered(cats, categoryId, name, parentCategory) == cats

\* addPersistentCategory(name, parentCategory): the registry with the new entry
addPersistentCategory(cats, categoryId, name, parentCategory) ==
    (categoryId :> [name |-> name, parentCategory |-> parentCategory, isActive |-> TRUE])
        @@ cats

\* getAllActiveCategories(), as the set of their ids
getAllActiveCategories(cats) == {c \in DOMAIN cats : cats[c].isActive}

\* the activity without the filter on the transaction type
calculateActivity_anyType(b, month, categoryId) ==
    SumAmounts(getMonthData(b, month)[month].transactions,
               {t \in {getMonthData(b, month)[month].transactions[i] :
                          i \in 1..Len(getMonthData(b, month)[month].transactions)} :
                    t.categoryId = categoryId})

\* calculateActivity(month, categoryId)
calculateActivity(b, month, categoryId) ==
    SumAmounts(getMonthData(b, month)[month].transactions,
               {t \in {getMonthData(b, month)[month].transactions[i] :
                          i \in 1..Len(getMonthData(b, month)[month].transactions)} :
                    t.categoryId = categoryId /\ t.type = "expense"})

\* calculateCategoryAvailable(month, categoryId)
calculateCategoryAvailable(b, month, categoryId) ==
    Assigned(getMonthData(b, month), month, categoryId)
        - calculateActivity(b, month, categoryId)

\* the pool after an update that counts every transaction as income
updateReadyToAssign_anyType(pool, transaction) == pool + transaction.amount

\* updateReadyToAssign(transaction): the pool after it
updateReadyToAssign(pool, transaction) ==
    IF transaction.type = "income" THEN pool + transaction.amount ELSE pool

\* isDuplicateTransaction(transaction)
isDuplicateTransaction(b, month, transaction) ==
    \E i \in 1..Len(getMonthData(b, month)[month].transactions) :
        LET t == getMonthData(b, month)[month].transactions[i] IN
            /\ t.date = transaction.date
            /\ t.amount = transaction.amount
            /\ t.description = transaction.description

\* a handler that went through records itself in the history variables
Done(op) ==
    /\ steps < limit
    /\ steps' = steps + 1
    /\ last' = op
    /\ UNCHANGED <<limit, io, debtViewMethod>>

\* a handler that rejected its input, or whose dialog was cancelled
Rejected == UNCHANGED <<steps, limit, last, io, debtViewMethod>>

\* ------------------------------------------------------ the data file
\* a document written without the pool
stringify_poolDropped(b, d, g, c, pool) ==
    [monthlyBudgets |-> b, debtList |-> d, goals |-> g, categories |-> c,
     readyToAssign |-> 0]

\* dataToSave of saveDataToFile as JSON.stringify writes it and JSON.parse reads
\* it back: the state holds strings, finite numbers, booleans, null, arrays
\* and plain objects only, which JSON keeps as they are
stringify(b, d, g, c, pool) ==
    [monthlyBudgets |-> b, debtList |-> d, goals |-> g, categories |-> c,
     readyToAssign |-> pool]

\* a reference held by a write in flight: to the object a global still points
\* to, or to the object it pointed to before it was re-assigned
Live == [live |-> TRUE, value |-> <<>>]
Was(value) == [live |-> FALSE, value |-> value]

\* the debts of a list that debtList no longer points to: the debts that are
\* still in debtList are the same objects
Shared(list, current) ==
    [i \in DOMAIN list |->
        IF \E j \in DOMAIN current : current[j].id = list[i].id
        THEN current[CHOOSE j \in DOMAIN current : current[j].id = list[i].id]
        ELSE list[i]]

\* dataToSave of a write in flight once the handler re-assigns some globals
Reassign(data, globals) ==
    [data EXCEPT
        !.monthlyBudgets = IF "budgets" \in globals /\ @.live THEN Was(budgets) ELSE @,
        !.categories = IF "categories" \in globals /\ @.live THEN Was(categories) ELSE @,
        !.goals = IF "goals" \in globals /\ @.live THEN Was(goals) ELSE @,
        !.debtList = IF "debtList" \notin globals THEN @
                     ELSE IF @.live THEN Was(debtList)
                     ELSE Was(Shared(@.value, debtList))]

\* the writes in flight once the handler re-assigns some globals
Reassigned(w, globals) ==
    [i \in DOMAIN w |->
        IF w[i].stage = "createWritable"
        THEN [w[i] EXCEPT !.data = Reassign(@, globals)]
        ELSE w[i]]

\* history kept with each write in flight: the documents of the states the
\* memory has been in since saveDataToFile() was called for it
Witnessed(w) ==
    [i \in DOMAIN w |->
        IF w[i].stage = "createWritable"
        THEN [w[i] EXCEPT !.instants = @ \cup {stringify(budgets', debtList', goals',
                                                          categories', readyToAssign')}]
        ELSE w[i]]

\* JSON.stringify(data) of a write in flight, evaluated when createWritable()
\* has resolved
stringifyData(data) ==
    stringify(IF data.monthlyBudgets.live THEN budgets ELSE data.monthlyBudgets.value,
              IF data.debtList.live THEN debtList ELSE Shared(data.debtList.value, debtList),
              IF data.goals.live THEN goals ELSE data.goals.value,
              IF data.categories.live THEN categories ELSE data.categories.value,
              data.readyToAssign)

\* saveDataToFile() as the last statement of a handler, not awaited: without a
\* file handle writeFile reports and returns; with one, the write is in
\* flight when the handler returns, holding readyToAssign and references to
\* the other four globals.  Where the file system settles every write before
\* the next handler runs (io = "settled") the write is followed to its end
\* here.  contents is the document in the file and w are the writes in flight
\* before the call.
saveDataToFile(contents, w) ==
    IF ~fileHandle'
    THEN disk' = contents /\ writes' = w
    ELSE IF io = "settled"
         THEN /\ disk' = stringify(budgets', debtList', goals', categories', readyToAssign')
              /\ writes' = w
         ELSE /\ disk' = contents
              /\ writes' = Append(w, [stage |-> "createWritable",
                                      data |-> [monthlyBudgets |-> Live, debtList |-> Live,
                                                goals |-> Live, categories |-> Live,
                                                readyToAssign |-> readyToAssign'],
                                      contents |-> <<>>,
                                      instants |-> {stringify(budgets', debtList', goals',
                                                              categories', readyToAssign')}])

\* the end of a handler: one that returned early has not reached its
\* saveDataToFile() call; globals are the globals the handler re-assigned
Saved(globals) ==
    IF steps' = steps
    THEN disk' = disk /\ writes' = Witnessed(writes)
    ELSE saveDataToFile(disk, Witnessed(Reassigned(writes, globals)))

\* ----------------------------------------------------------------- Init
Begin(n, scheduling) ==
    /\ budgets = <<>>
    /\ debtList = <<>>
    /\ goals = <<>>
    /\ categories = <<>>
    /\ currentMonth = TodayMonth
    /\ readyToAssign = 0
    /\ fileHandle = FALSE
    /\ disk = EmptyDocument
    /\ writes = <<>>
    /\ io = scheduling
    /\ debtViewMethod = "snowball"
    /\ phase = "loading"
    /\ nextId = 0
    /\ paid = 0
    /\ steps = 0
    /\ limit = n
    /\ last = "none"

Start(n) == Begin(n, "settled")

Init == Start(MaxSteps)

\* initApp(data) at a page load that shows the month `month`, the file
\* holding `contents`.  migrateOldCategories() runs when the registry is
\* empty: a document written by this program then has no allocation to
\* convert, and the migration comes down to its saveDataToFile() call.
initApp(data, month, contents) ==
    /\ budgets' = renderUI(data.monthlyBudgets, month)
    /\ debtList' = data.debtList
    /\ goals' = data.goals
    /\ categories' = data.categories
    /\ readyToAssign' = data.readyToAssign
    /\ phase' = "ready"
    /\ paid' = 0
    /\ IF data.categories = <<>>
       THEN saveDataToFile(contents, <<>>)
       ELSE disk' = contents /\ writes' = <<>>

\* what a file holds that JSON.parse cannot read
Unparsable == [SyntaxError |-> TRUE]

\* readFile() with a file handle: JSON.parse of a document this program
\* wrote gives the document back; on anything JSON.parse throws at, the catch
\* block shows the error and returns the empty default document
readFile(contents) == IF contents = Unparsable THEN EmptyDocument ELSE contents

\* fileHandle.getFile() / file.text() of a file that another program has
\* overwritten since: the file belongs to the user, not to the page
overwritten ==
    /\ disk # Unparsable
    /\ writes = <<>>
    /\ disk' = Unparsable
    /\ last' = "overwritten"
    /\ UNCHANGED <<budgets, debtList, goals, categories, currentMonth, readyToAssign,
                   fileHandle, writes, io, debtViewMethod, phase, nextId, paid, steps,
                   limit>>

\* selectExistingFile: the picker is cancelled (AbortError) or the data file
\* is opened
selectExistingFile(cancelled) ==
    /\ phase = "loading"
    /\ IF cancelled
       THEN /\ UNCHANGED <<budgets, debtList, goals, categories, readyToAssign,
                           fileHandle, disk, writes, phase, paid>>
            /\ Rejected
       ELSE /\ fileHandle' = TRUE
            /\ initApp(readFile(disk), currentMonth, disk)
            /\ last' = "selectExistingFile"
            /\ UNCHANGED <<steps, limit, io, debtViewMethod>>
    /\ UNCHANGED <<currentMonth, nextId>>

\* createNewFile: the prompt or the picker is cancelled, or the file is created
\* and writeFile(initialData), awaited, has written it
createNewFile(cancelled) ==
    /\ phase = "loading"
    /\ IF cancelled
       THEN /\ UNCHANGED <<budgets, debtList, goals, categories, readyToAssign,
                           fileHandle, disk, writes, phase, paid>>
            /\ Rejected
       ELSE /\ fileHandle' = TRUE
            /\ initApp(EmptyDocument, currentMonth, EmptyDocument)
            /\ last' = "createNewFile"
            /\ UNCHANGED <<steps, limit, io, debtViewMethod>>
    /\ UNCHANGED <<currentMonth, nextId>>

\* chooseNewDataFile(): the document it returns; the catch branch returns an
\* empty document as well
chooseNewDataFile(cancelled) == EmptyDocument

\* changeFileBtn click handler
changeFile(cancelled) ==
    /\ phase = "ready"
    /\ LET data == chooseNewDataFile(cancelled) IN
        /\ budgets' = renderUI(data.monthlyBudgets, currentMonth)
        /\ debtList' = data.debtList
        /\ goals' = data.goals
        /\ categories' = data.categories
        /\ readyToAssign' = data.readyToAssign
    /\ fileHandle' = IF cancelled THEN fileHandle ELSE TRUE
    /\ paid' = 0
    /\ Done(IF cancelled THEN "changeFileCancelled" ELSE "changeFile")
    /\ UNCHANGED <<currentMonth, phase, nextId>>
    \* the handler has no saveDataToFile() call; a file that was chosen holds
    \* the initial document, and the writes in flight go to the file left behind
    /\ IF cancelled
       THEN /\ disk' = disk
            /\ writes' = Witnessed(Reassigned(writes, {"budgets", "debtList", "goals",
                                                        "categories"}))
       ELSE /\ disk' = chooseNewDataFile(cancelled)
            /\ writes' = <<>>

\* prevMonthBtn click handler
prevMonth ==
    /\ phase = "ready"
    /\ currentMonth > 0
    /\ currentMonth' = currentMonth - 1
    /\ budgets' = renderUI(budgets, currentMonth - 1)
    /\ Done("prevMonth")
    /\ UNCHANGED <<debtList, goals, categories, readyToAssign, fileHandle, phase,
                   nextId, paid>>
    /\ disk' = disk
    /\ writes' = Witnessed(writes)

\* nextMonthBtn click handler
nextMonth ==
    /\ phase = "ready"
    /\ currentMonth < MaxMonth
    /\ currentMonth' = currentMonth + 1
    /\ budgets' = renderUI(budgets, currentMonth + 1)
    /\ Done("nextMonth")
    /\ UNCHANGED <<debtList, goals, categories, readyToAssign, fileHandle, phase,
                   nextId, paid>>
    /\ disk' = disk
    /\ writes' = Witnessed(writes)

\* the guard without its comparison
exceedsPool_never(amount, pool) == FALSE

\* the guard that rejects every call
exceedsPool_always(amount, pool) == TRUE

\* the guard with a pool one unit too large
exceedsPool_slack(amount, pool) == amount > pool + 1

\* the guard of window.updateCategoryAssigned, assignFundsBtn.onclick and the
\* payment handler: the amount asked for exceeds the pool
exceedsPool(amount, pool) == amount > pool

\* window.updateCategoryAssigned(categoryId, value)
updateCategoryAssigned(categoryId, value) ==
    /\ phase = "ready"
    /\ categoryId \in getAllActiveCategories(categories)
    /\ LET monthData == getMonthData(budgets, currentMonth)
           newValue == value
           oldValue == Assigned(monthData, currentMonth, categoryId)
           difference == newValue - oldValue
       IN IF exceedsPool(difference, readyToAssign)
          THEN /\ budgets' = monthData
               /\ UNCHANGED readyToAssign
               /\ Rejected
          ELSE /\ budgets' = renderUI(SetAssigned(monthData, currentMonth, categoryId, newValue),
                                      currentMonth)
               /\ readyToAssign' = readyToAssign - difference
               /\ Done("updateCategoryAssigned")
    /\ UNCHANGED <<debtList, goals, categories, currentMonth, fileHandle, phase,
                   nextId, paid>>
    /\ Saved({})

\* what window.handleDeleteCategory gives back to the pool
RefundedByDeletion == 0

\* a deletion that flips the flag
deactivate_toggle(cats, categoryId) == [cats EXCEPT ![categoryId].isActive = ~@]

\* categories[categoryId].isActive = false
deactivate(cats, categoryId) == [cats EXCEPT ![categoryId].isActive = FALSE]

\* window.handleDeleteCategory(categoryId), confirmed
handleDeleteCategory(categoryId) ==
    /\ phase = "ready"
    /\ categoryId \in getAllActiveCategories(categories)
    /\ categories' = deactivate(categories, categoryId)
    /\ budgets' = renderUI(budgets, currentMonth)
    /\ Done("handleDeleteCategory")
    /\ UNCHANGED <<debtList, goals, currentMonth, readyToAssign, fileHandle, phase,
                   nextId, paid>>
    /\ Saved({})

\* the months of a funding loop that starts one month late
goalMonths_shifted(startDate, monthsBetween) ==
    {MonthOf(startDate) + i : i \in 1..monthsBetween}

\* the months the goal handler funds: format(addMonths(startDate, i), 'yyyy-MM')
\* for i = 0 .. monthsBetween - 1
goalMonths(startDate, monthsBetween) ==
    {MonthOf(startDate) + i : i \in 0..(monthsBetween - 1)}

RECURSIVE fundGoal(_, _, _, _)
\* the loop of the goal handler over the months still to fund
fundGoal(b, months, categoryId, monthlyContribution) ==
    IF months = {} THEN b
    ELSE LET monthKey == CHOOSE m \in months : \A o \in months : m <= o
             monthData == getMonthData(b, monthKey)
         IN fundGoal(SetAssigned(monthData, monthKey, categoryId, monthlyContribution),
                     months \ {monthKey}, categoryId, monthlyContribution)

\* the pool after a goal handler that pays for the goal
goalReadyToAssign_debited(pool, totalAmount) == pool - totalAmount

\* the pool after the goal handler: it has no statement on readyToAssign
goalReadyToAssign(pool, totalAmount) == pool

\* saveGoalBtn click handler
saveGoal(name, dueDate, totalAmount) ==
    /\ phase = "ready"
    /\ LET startDate == startOfMonth(Today)
           endDate == dueDate
           monthsBetween == differenceInCalendarMonths(endDate, startDate) + 1
           monthlyContribution == totalAmount \div monthsBetween
           goalId == nextId + 1
           categoryId == nextId + 2
       IN IF name = "" \/ totalAmount <= 0 \/ endDate <= startDate
          THEN /\ UNCHANGED <<budgets, goals, categories, nextId, readyToAssign>>
               /\ Rejected
          ELSE /\ goals' = Append(goals, [id |-> goalId, name |-> name, dueDate |-> dueDate,
                                          totalAmount |-> totalAmount,
                                          monthlyContribution |-> monthlyContribution])
               /\ categories' = addPersistentCategory(categories, categoryId, name,
                                                      "Financial Goals")
               /\ budgets' = renderUI(fundGoal(budgets, goalMonths(startDate, monthsBetween),
                                               categoryId, monthlyContribution),
                                      currentMonth)
               /\ nextId' = nextId + 2
               /\ readyToAssign' = goalReadyToAssign(readyToAssign, totalAmount)
               /\ Done("saveGoal")
    /\ UNCHANGED <<debtList, currentMonth, fileHandle, phase, paid>>
    /\ Saved({})

\* renderGoalsTable: Object.values(categories).find(cat => cat.name === goal.name),
\* the oldest category of that name, as a set with at most one id
goalCategory(cats, goal) ==
    {c \in DOMAIN cats :
        /\ cats[c].name = goal.name
        /\ \A o \in DOMAIN cats : cats[o].name = goal.name => c <= o}

RECURSIVE totalAssigned(_, _, _, _)
\* renderGoalsTable: the loop over the month keys that adds up the assigned
\* amounts of the category found
totalAssigned(b, months, cats, goal) ==
    IF months = {} THEN 0
    ELSE LET monthKey == CHOOSE m \in months : \A o \in months : m <= o
         IN (IF goalCategory(cats, goal) = {} THEN 0
             ELSE LET c == CHOOSE x \in goalCategory(cats, goal) : TRUE
                  IN Assigned(b, monthKey, c))
            + totalAssigned(b, months \ {monthKey}, cats, goal)

\* renderGoalsTable: the progress in percent, as the fraction
\* <<numerator, denominator>>
progress(b, cats, goal) ==
    IF goal.totalAmount > 0
    THEN <<totalAssigned(b, DOMAIN b, cats, goal) * 100, goal.totalAmount>>
    ELSE <<0, 1>>

\* a goal deletion that also deactivates the categories named like the goal
handleDeleteGoal_cascade(goalId) ==
    /\ phase = "ready"
    /\ \E i \in 1..Len(goals) : goals[i].id = goalId
    /\ goals' = SelectSeq(goals, LAMBDA g : g.id # goalId)
    /\ categories' = [c \in DOMAIN categories |->
                        IF \E i \in 1..Len(goals) :
                              goals[i].id = goalId /\ goals[i].name = categories[c].name
                        THEN [categories[c] EXCEPT !.isActive = FALSE]
                        ELSE categories[c]]
    /\ budgets' = renderUI(budgets, currentMonth)
    /\ Done("handleDeleteGoal")
    /\ UNCHANGED <<debtList, currentMonth, readyToAssign, fileHandle, phase, nextId, paid>>
    /\ Saved({"goals"})

\* window.handleDeleteGoal(goalId)
handleDeleteGoal(goalId) ==
    /\ phase = "ready"
    /\ \E i \in 1..Len(goals) : goals[i].id = goalId
    /\ goals' = SelectSeq(goals, LAMBDA g : g.id # goalId)
    /\ budgets' = renderUI(budgets, currentMonth)
    /\ Done("handleDeleteGoal")
    /\ UNCHANGED <<debtList, categories, currentMonth, readyToAssign, fileHandle, phase,
                   nextId, paid>>
    /\ Saved({"goals"})

\* window.handleAssignFunds(categoryId) followed by assignFundsBtn.onclick
assignFunds(categoryId, assignToMonth, amount) ==
    /\ phase = "ready"
    /\ categoryId \in getAllActiveCategories(categories)
    /\ assignToMonth \in DOMAIN budgets
    /\ IF amount <= 0 \/ exceedsPool(amount, readyToAssign)
       THEN /\ UNCHANGED <<budgets, readyToAssign>>
            /\ Rejected
       ELSE /\ LET monthData == getMonthData(budgets, assignToMonth) IN
                 budgets' = renderUI(
                     SetAssigned(monthData, assignToMonth, categoryId,
                                 Assigned(monthData, assignToMonth, categoryId) + amount),
                     currentMonth)
            /\ readyToAssign' = readyToAssign - amount
            /\ Done("assignFunds")
    /\ UNCHANGED <<debtList, goals, categories, currentMonth, fileHandle, phase,
                   nextId, paid>>
    /\ Saved({})

\* the lookup of the add-category handler: an active category of that name,
\* ignoring case
existingCategory(cats, name) ==
    \E c \in DOMAIN cats : toLowerCase(cats[c].name) = toLowerCase(name) /\ cats[c].isActive

\* addCategoryBtn click handler
addCategory(newCategoryName, newParentCategory) ==
    /\ phase = "ready"
    /\ IF newCategoryName = "" \/ existingCategory(categories, newCategoryName)
       THEN /\ UNCHANGED <<budgets, categories, nextId>>
            /\ Rejected
       ELSE /\ categories' = addPersistentCategory(categories, nextId + 1, newCategoryName,
                                                   newParentCategory)
            /\ budgets' = renderUI(SetAssigned(getMonthData(budgets, currentMonth),
                                               currentMonth, nextId + 1, 0),
                                   currentMonth)
            /\ nextId' = nextId + 1
            /\ Done("addCategory")
    /\ UNCHANGED <<debtList, goals, currentMonth, readyToAssign, fileHandle, phase, paid>>
    /\ Saved({})

\* the transactions of all months, as a set (ids are unique)
AllTransactions(b) ==
    UNION {{b[m].transactions[i] : i \in 1..Len(b[m].transactions)} : m \in DOMAIN b}

\* the month key under which the transaction with this id is stored
\* (for ... in budgets, first hit)
monthOfTransaction(b, transactionId) ==
    CHOOSE m \in DOMAIN b :
        /\ \E i \in 1..Len(b[m].transactions) : b[m].transactions[i].id = transactionId
        /\ \A o \in DOMAIN b :
              (\E i \in 1..Len(b[o].transactions) : b[o].transactions[i].id = transactionId)
                  => m <= o

\* transactions.findIndex(t => t.id === transactionId) in a list that holds it
findIndex(seq, transactionId) ==
    CHOOSE i \in 1..Len(seq) :
        seq[i].id = transactionId /\ \A j \in 1..(i - 1) : seq[j].id # transactionId

\* recordTransactionBtn click handler; addAnyway is the answer given in the
\* duplicate confirmation modal when it is shown (addDuplicateAnywayBtn or
\* skipDuplicateBtn)
recordTransaction(amount, type, date, description, categoryId, addAnyway) ==
    /\ phase = "ready"
    /\ categoryId \in getAllActiveCategories(categories) \cup {NoCat}
    /\ IF amount <= 0 \/ (type = "expense" /\ categoryId = NoCat)
       THEN /\ UNCHANGED <<budgets, readyToAssign, nextId>>
            /\ Rejected
       ELSE LET month == MonthOf(date)
                monthData == getMonthData(budgets, month)
                newTransaction == [id |-> nextId + 1, date |-> date, amount |-> amount,
                                   description |-> description, type |-> type,
                                   categoryId |-> categoryId]
            IN IF isDuplicateTransaction(monthData, currentMonth, newTransaction)
                  /\ ~addAnyway
               THEN /\ budgets' = getMonthData(monthData, currentMonth)
                    /\ UNCHANGED <<readyToAssign, nextId>>
                    /\ Rejected
               ELSE /\ budgets' = renderUI(
                            PushTransaction(getMonthData(monthData, currentMonth), month,
                                            newTransaction),
                            currentMonth)
                    /\ readyToAssign' = updateReadyToAssign(readyToAssign, newTransaction)
                    /\ nextId' = nextId + 1
                    /\ Done("recordTransaction")
    /\ UNCHANGED <<debtList, goals, categories, currentMonth, fileHandle, phase, paid>>
    /\ Saved({})

\* the pool after an edit that does not take the old income back
editReadyToAssign_keepOld(pool, oldTransaction, newType, newAmount) ==
    pool + (IF newType = "income" THEN newAmount ELSE 0)

\* the pool after saveEditedTransactionBtn replaced oldTransaction
editReadyToAssign(pool, oldTransaction, newType, newAmount) ==
    (IF oldTransaction.type = "income" THEN pool - oldTransaction.amount ELSE pool)
        + (IF newType = "income" THEN newAmount ELSE 0)

\* window.handleEditTransaction(transactionId) followed by the
\* saveEditedTransactionBtn click handler
saveEditedTransaction(transactionId, newDate, newAmount, newType, newDescription, newCategoryId) ==
    /\ phase = "ready"
    /\ \E t \in AllTransactions(budgets) : t.id = transactionId
    /\ newCategoryId \in getAllActiveCategories(categories) \cup {NoCat}
    /\ IF newAmount <= 0 \/ (newType = "expense" /\ newCategoryId = NoCat)
       THEN /\ UNCHANGED <<budgets, readyToAssign>>
            /\ Rejected
       ELSE LET oldMonth == monthOfTransaction(budgets, transactionId)
                transactionIndex == findIndex(budgets[oldMonth].transactions, transactionId)
                oldTransaction == budgets[oldMonth].transactions[transactionIndex]
                updatedTransaction == [oldTransaction EXCEPT
                                          !.date = newDate, !.amount = newAmount,
                                          !.type = newType, !.description = newDescription,
                                          !.categoryId = newCategoryId]
                newMonth == MonthOf(newDate)
            IN /\ budgets' = renderUI(
                       IF newMonth # oldMonth
                       THEN PushTransaction(
                                getMonthData(
                                    [budgets EXCEPT ![oldMonth].transactions =
                                                        Splice(@, transactionIndex)],
                                    newMonth),
                                newMonth, updatedTransaction)
                       ELSE [budgets EXCEPT ![oldMonth].transactions[transactionIndex] =
                                                updatedTransaction],
                       currentMonth)
               /\ readyToAssign' = editReadyToAssign(readyToAssign, oldTransaction,
                                                     newType, newAmount)
               /\ Done("saveEditedTransaction")
    /\ UNCHANGED <<debtList, goals, categories, currentMonth, fileHandle, phase,
                   nextId, paid>>
    /\ Saved({})

\* the pool after a deletion that takes every amount back
deleteReadyToAssign_anyType(pool, transaction) == pool - transaction.amount

\* the pool after window.handleDeleteTransaction removed the transaction
deleteReadyToAssign(pool, transaction) ==
    IF transaction.type = "income" THEN pool - transaction.amount ELSE pool

\* Object.values(categories).find(cat => cat.name.toLowerCase() ===
\* categoryName.toLowerCase() && cat.isActive): the ids it can return, the
\* first in insertion order being the one found
namedCategories(cats, categoryName) ==
    {c \in getAllActiveCategories(cats) :
        toLowerCase(cats[c].name) = toLowerCase(categoryName)}

\* a line of the bulk text area that names no category goes in as an expense
\* all the same
bulkLine_uncategorised(st, line) ==
    IF line.amount <= 0 \/ line.description = ""
    THEN st
    ELSE LET found == namedCategories(categories, line.categoryName)
             month == MonthOf(line.date)
             monthData == getMonthData(st.budgets, month)
             newTransaction == [id |-> st.nextId + 1, date |-> line.date,
                                amount |-> line.amount, description |-> line.description,
                                type |-> line.type,
                                categoryId |-> IF found = {} THEN NoCat
                                               ELSE CHOOSE c \in found :
                                                       \A o \in found : c <= o]
         IN IF ~isDuplicateTransaction(monthData, currentMonth, newTransaction)
            THEN [budgets |-> PushTransaction(getMonthData(monthData, currentMonth),
                                              month, newTransaction),
                  readyToAssign |-> updateReadyToAssign(st.readyToAssign, newTransaction),
                  nextId |-> st.nextId + 1,
                  successCount |-> st.successCount + 1]
            ELSE [st EXCEPT !.budgets = getMonthData(monthData, currentMonth)]

\* the body of lines.forEach in the bulk add handler, for a line of five
\* parts with a date that parses and a type that is expense or income: st is
\* what the handler has made of the state so far
bulkLine(st, line) ==
    IF line.amount <= 0 \/ line.categoryName = "" \/ line.description = ""
    THEN st
    ELSE LET found == namedCategories(categories, line.categoryName) IN
         IF found = {} /\ line.type = "expense"
         THEN st
         ELSE LET month == MonthOf(line.date)
                  monthData == getMonthData(st.budgets, month)
                  newTransaction == [id |-> st.nextId + 1, date |-> line.date,
                                     amount |-> line.amount,
                                     description |-> line.description,
                                     type |-> line.type,
                                     categoryId |-> IF found = {} THEN NoCat
                                                    ELSE CHOOSE c \in found :
                                                            \A o \in found : c <= o]
              IN IF ~isDuplicateTransaction(monthData, currentMonth, newTransaction)
                 THEN [budgets |-> PushTransaction(getMonthData(monthData, currentMonth),
                                                   month, newTransaction),
                       readyToAssign |-> updateReadyToAssign(st.readyToAssign,
                                                             newTransaction),
                       nextId |-> st.nextId + 1,
                       successCount |-> st.successCount + 1]
                 ELSE [st EXCEPT !.budgets = getMonthData(monthData, currentMonth)]

\* lines.forEach(...) of the bulk add handler
RECURSIVE bulkLines(_, _)
bulkLines(st, lines) ==
    IF lines = <<>> THEN st ELSE bulkLines(bulkLine(st, Head(lines)), Tail(lines))

\* addBulkTransactionsBtnModal click handler, the text area holding lines
addBulkTransactions(lines) ==
    /\ phase = "ready"
    /\ LET st == bulkLines([budgets |-> budgets, readyToAssign |-> readyToAssign,
                            nextId |-> nextId, successCount |-> 0], lines)
       IN IF lines # <<>> /\ st.successCount > 0
          THEN /\ budgets' = renderUI(st.budgets, currentMonth)
               /\ readyToAssign' = st.readyToAssign
               /\ nextId' = st.nextId
               /\ Done("addBulkTransactions")
          ELSE /\ budgets' = st.budgets
               /\ UNCHANGED <<readyToAssign, nextId>>
               /\ Rejected
    /\ UNCHANGED <<debtList, goals, categories, currentMonth, fileHandle, phase, paid>>
    /\ Saved({})

\* window.handleDeleteTransaction(transactionId, month), confirmed; the row
\* that carries the button names the month the transaction is stored under
handleDeleteTransaction(transactionId, month) ==
    /\ phase = "ready"
    /\ month \in DOMAIN budgets
    /\ \E i \in 1..Len(budgets[month].transactions) :
          budgets[month].transactions[i].id = transactionId
    /\ LET transactionIndex == findIndex(budgets[month].transactions, transactionId)
           transaction == budgets[month].transactions[transactionIndex]
       IN /\ readyToAssign' = deleteReadyToAssign(readyToAssign, transaction)
          /\ budgets' = renderUI([budgets EXCEPT ![month].transactions =
                                                     Splice(@, transactionIndex)],
                                 currentMonth)
    /\ Done("handleDeleteTransaction")
    /\ UNCHANGED <<debtList, goals, categories, currentMonth, fileHandle, phase,
                   nextId, paid>>
    /\ Saved({})

\* addDebtConfirmBtn click handler
addDebt(name, originalBalance, currentBalance, interestRate, minPayment) ==
    /\ phase = "ready"
    /\ IF name = "" \/ originalBalance <= 0 \/ currentBalance < 0
       THEN /\ UNCHANGED <<debtList, budgets, nextId>>
            /\ Rejected
       ELSE /\ debtList' = Append(debtList,
                                  [id |-> nextId + 1, name |-> name,
                                   originalBalance |-> originalBalance,
                                   currentBalance |-> currentBalance,
                                   interestRate |-> interestRate,
                                   minPayment |-> minPayment,
                                   paymentHistory |-> <<>>])
            /\ nextId' = nextId + 1
            /\ budgets' = renderUI(budgets, currentMonth)
            /\ Done("addDebt")
    /\ UNCHANGED <<goals, categories, currentMonth, readyToAssign, fileHandle, phase, paid>>
    /\ Saved({})

\* the balance after a payment without the clamp at zero
balanceAfterPayment_unclamped(currentBalance, amount) == currentBalance - amount

\* debt.currentBalance after a payment
balanceAfterPayment(currentBalance, amount) ==
    IF currentBalance - amount < 0 THEN 0 ELSE currentBalance - amount

\* the lookup of the payment handler: the active categories named 'Debt Payments'
debtPaymentCategories(cats) ==
    {c \in DOMAIN cats : cats[c].name = DebtPaymentsName /\ cats[c].isActive}

\* the month whose ledger receives the expense recorded by a payment
paymentLedger(displayed, today) == displayed

\* window.handleRecordPayment(debtId) followed by the recordPaymentConfirmBtn
\* click handler
recordPayment(debtId, amount) ==
    /\ phase = "ready"
    /\ \E i \in 1..Len(debtList) : debtList[i].id = debtId
    /\ IF amount <= 0 \/ exceedsPool(amount, readyToAssign)
       THEN /\ UNCHANGED <<budgets, debtList, categories, readyToAssign, nextId, paid>>
            /\ Rejected
       ELSE LET i == CHOOSE j \in 1..Len(debtList) : debtList[j].id = debtId
                found == debtPaymentCategories(categories)
                \* Array.prototype.find: the first one in insertion order
                categoryId == IF found = {} THEN nextId + 1
                              ELSE CHOOSE c \in found : \A o \in found : c <= o
                used == IF found = {} THEN nextId + 1 ELSE nextId
                ledger == paymentLedger(currentMonth, MonthOf(Today))
            IN /\ debtList' = [debtList EXCEPT
                                  ![i].currentBalance = balanceAfterPayment(@, amount),
                                  ![i].paymentHistory =
                                      Append(@, [date |-> Today, amount |-> amount])]
               /\ categories' = IF found = {}
                                THEN addPersistentCategory(categories, categoryId,
                                                           DebtPaymentsName, "Fixed Expenses")
                                ELSE categories
               /\ budgets' = renderUI(
                       PushTransaction(getMonthData(budgets, ledger), ledger,
                                       [id |-> used + 1, date |-> Today, amount |-> amount,
                                        description |-> PaymentDescription,
                                        type |-> "expense", categoryId |-> categoryId]),
                       currentMonth)
               /\ nextId' = used + 1
               /\ readyToAssign' = readyToAssign - amount
               /\ paid' = paid + amount
               /\ Done("recordPayment")
    /\ UNCHANGED <<goals, currentMonth, fileHandle, phase>>
    /\ Saved({})

\* a debt deletion that gives the payments made back to the pool
handleDeleteDebt_refund(debtId) ==
    /\ phase = "ready"
    /\ \E i \in 1..Len(debtList) : debtList[i].id = debtId
    /\ debtList' = SelectSeq(debtList, LAMBDA d : d.id # debtId)
    /\ readyToAssign' = readyToAssign
           + Len((CHOOSE d \in {debtList[i] : i \in DOMAIN debtList} : d.id = debtId).paymentHistory)
    /\ budgets' = renderUI(budgets, currentMonth)
    /\ Done("handleDeleteDebt")
    /\ UNCHANGED <<goals, categories, currentMonth, fileHandle, phase, nextId, paid>>
    /\ Saved({"debtList"})

\* window.handleDeleteDebt(debtId), confirmed
handleDeleteDebt(debtId) ==
    /\ phase = "ready"
    /\ \E i \in 1..Len(debtList) : debtList[i].id = debtId
    /\ debtList' = SelectSeq(debtList, LAMBDA d : d.id # debtId)
    /\ budgets' = renderUI(budgets, currentMonth)
    /\ Done("handleDeleteDebt")
    /\ UNCHANGED <<goals, categories, currentMonth, readyToAssign, fileHandle, phase,
                   nextId, paid>>
    /\ Saved({"debtList"})

\* a copy that takes every active category, with or without an entry
categoriesToCopy_all(cats, nextMonthData) == {c \in DOMAIN cats : cats[c].isActive}

\* the categories the copy handler creates in the next month
categoriesToCopy(cats, nextMonthData) ==
    {c \in DOMAIN cats : cats[c].isActive /\ c \notin DOMAIN nextMonthData.categories}

\* categoriesCopied, the number the copy handler reports
categoriesCopied(cats, nextMonthData) == Cardinality(categoriesToCopy(cats, nextMonthData))

\* copyCategoriesBtn click handler
copyCategories ==
    /\ phase = "ready"
    /\ currentMonth < MaxMonth
    /\ UNCHANGED <<debtList, goals, categories, currentMonth, readyToAssign, fileHandle,
                   phase, nextId, paid>>
    /\ LET nextMonthKey == currentMonth + 1
           b == getMonthData(getMonthData(budgets, currentMonth), nextMonthKey)
           copied == categoriesToCopy(categories, b[nextMonthKey])
       IN /\ budgets' = [b EXCEPT ![nextMonthKey].categories =
                                      [c \in copied |-> 0] @@ @]
          /\ IF categoriesCopied(categories, b[nextMonthKey]) > 0 \/ b # budgets
             THEN Done("copyCategories")
             ELSE Rejected
          /\ IF categoriesCopied(categories, b[nextMonthKey]) > 0
             THEN saveDataToFile(disk, Witnessed(writes))
             ELSE disk' = disk /\ writes' = Witnessed(writes)

\* a quick budget that also runs when nothing is missing, taking the displayed
\* month down to the previous month's figure
handleQuickBudget_noDeltaCheck(categoryId) ==
    /\ phase = "ready"
    /\ categoryId \in getAllActiveCategories(categories)
    /\ currentMonth - 1 \in DOMAIN budgets
    /\ categoryId \in DOMAIN budgets[currentMonth - 1].categories
    /\ readyToAssign >= Assigned(budgets, currentMonth - 1, categoryId)
                           - Assigned(budgets, currentMonth, categoryId)
    /\ budgets' = SetAssigned(getMonthData(budgets, currentMonth), currentMonth, categoryId,
                              Assigned(budgets, currentMonth - 1, categoryId))
    /\ readyToAssign' = readyToAssign - (Assigned(budgets, currentMonth - 1, categoryId)
                                           - Assigned(budgets, currentMonth, categoryId))
    /\ Done("handleQuickBudget")
    /\ UNCHANGED <<debtList, goals, categories, currentMonth, fileHandle, phase,
                   nextId, paid>>
    /\ Saved({})

\* a quick budget that does not look at the pool
handleQuickBudget_noPoolCheck(categoryId) ==
    /\ phase = "ready"
    /\ categoryId \in getAllActiveCategories(categories)
    /\ currentMonth - 1 \in DOMAIN budgets
    /\ categoryId \in DOMAIN budgets[currentMonth - 1].categories
    /\ Assigned(budgets, currentMonth - 1, categoryId)
          > Assigned(budgets, currentMonth, categoryId)
    /\ budgets' = SetAssigned(getMonthData(budgets, currentMonth), currentMonth, categoryId,
                              Assigned(budgets, currentMonth - 1, categoryId))
    /\ readyToAssign' = readyToAssign - (Assigned(budgets, currentMonth - 1, categoryId)
                                           - Assigned(budgets, currentMonth, categoryId))
    /\ Done("handleQuickBudget")
    /\ UNCHANGED <<debtList, goals, categories, currentMonth, fileHandle, phase,
                   nextId, paid>>
    /\ Saved({})

\* window.handleQuickBudget(categoryId)
handleQuickBudget(categoryId) ==
    /\ phase = "ready"
    /\ categoryId \in getAllActiveCategories(categories)
    /\ LET previousMonth == currentMonth - 1
           currentMonthData == getMonthData(budgets, currentMonth)
           previousAssignedAmount == Assigned(budgets, previousMonth, categoryId)
           currentAssignedAmount == Assigned(currentMonthData, currentMonth, categoryId)
           amountToAssign == previousAssignedAmount - currentAssignedAmount
       IN IF \/ previousMonth \notin DOMAIN budgets
             \/ categoryId \notin DOMAIN budgets[previousMonth].categories
             \/ amountToAssign <= 0
             \/ readyToAssign < amountToAssign
          THEN /\ budgets' = currentMonthData
               /\ UNCHANGED readyToAssign
               /\ Rejected
          ELSE /\ budgets' = renderUI(
                       SetAssigned(currentMonthData, currentMonth, categoryId,
                                   currentAssignedAmount + amountToAssign),
                       currentMonth)
               /\ readyToAssign' = readyToAssign - amountToAssign
               /\ Done("handleQuickBudget")
    /\ UNCHANGED <<debtList, goals, categories, currentMonth, fileHandle, phase,
                   nextId, paid>>
    /\ Saved({})

Next ==
    \/ \E cancelled \in BOOLEAN : selectExistingFile(cancelled)
    \/ \E cancelled \in BOOLEAN : createNewFile(cancelled)
    \/ \E cancelled \in BOOLEAN : changeFile(cancelled)
    \/ prevMonth
    \/ nextMonth
    \/ \E c \in DOMAIN categories, v \in Amounts : updateCategoryAssigned(c, v)
    \/ \E c \in DOMAIN categories : handleDeleteCategory(c)
    \/ \E n \in GoalNames, d \in Dates, a \in GoalAmounts : saveGoal(n, d, a)
    \/ \E g \in 1..nextId : handleDeleteGoal(g)
    \/ \E c \in DOMAIN categories, m \in Months, a \in Amounts : assignFunds(c, m, a)
    \/ \E n \in NameInputs : addCategory(n, "")
    \/ \E a \in TxAmounts, ty \in {"income", "expense"}, d \in TxDates,
          de \in Descriptions, c \in DOMAIN categories \cup {NoCat}, ok \in BOOLEAN :
            recordTransaction(a, ty, d, de, c, ok)
    \/ \E t \in 1..nextId, a \in TxAmounts, ty \in {"income", "expense"}, d \in TxDates,
          de \in Descriptions, c \in DOMAIN categories \cup {NoCat} :
            saveEditedTransaction(t, d, a, ty, de, c)
    \/ \E t \in 1..nextId, m \in Months : handleDeleteTransaction(t, m)
    \/ \E o \in {0, MaxAmount}, c \in DebtBalances : addDebt(DebtName, o, c, 1, 1)
    \/ \E d \in 1..nextId, a \in Amounts : recordPayment(d, a)
    \/ \E d \in 1..nextId : handleDeleteDebt(d)
    \/ copyCategories
    \/ \E c \in DOMAIN categories : handleQuickBudget(c)

Spec == Init /\ [][Next]_vars

\* ----------------------------------------------- allocation handlers only
InitAlloc == Start(AllocSteps)

NextAlloc ==
    \/ createNewFile(FALSE)
    \/ prevMonth
    \/ nextMonth
    \/ addCategory("food", "")
    \/ recordTransaction(MaxAmount, "income", Today, PaymentDescription, NoCat, TRUE)
    \/ \E t \in 1..nextId, m \in Months : handleDeleteTransaction(t, m)
    \/ \E c \in DOMAIN categories, v \in Amounts : updateCategoryAssigned(c, v)
    \/ \E c \in DOMAIN categories, m \in Months, a \in Amounts : assignFunds(c, m, a)
    \/ \E c \in DOMAIN categories : handleQuickBudget(c)
    \/ addDebt(DebtName, MaxAmount, 1, 1, 1)
    \/ \E d \in 1..nextId, a \in Amounts : recordPayment(d, a)

SpecAlloc == InitAlloc /\ [][NextAlloc]_vars

\* ---------------------------------------------- transaction handlers only
InitLedger == Start(LedgerSteps)

NextLedger ==
    \/ createNewFile(FALSE)
    \/ prevMonth
    \/ nextMonth
    \/ addCategory("food", "")
    \/ \E c \in DOMAIN categories, v \in Amounts : updateCategoryAssigned(c, v)
    \/ \E a \in LedgerAmounts, d \in LedgerDates, k \in LedgerKinds(DOMAIN categories) :
            recordTransaction(a, k[1], d, PaymentDescription, k[2], TRUE)
    \/ \E t \in 1..nextId, a \in LedgerAmounts, d \in LedgerDates,
          k \in LedgerKinds(DOMAIN categories) :
            saveEditedTransaction(t, d, a, k[1], PaymentDescription, k[2])
    \/ \E t \in 1..nextId, m \in Months : handleDeleteTransaction(t, m)

SpecLedger == InitLedger /\ [][NextLedger]_vars

\* ----------------------------------------------------- debt handlers only
InitDebt == Start(DebtSteps)

NextDebt ==
    \/ createNewFile(FALSE)
    \/ \E cancelled \in BOOLEAN : changeFile(cancelled)
    \/ prevMonth
    \/ nextMonth
    \/ addDebt(DebtName, MaxAmount, 1, 1, 1)
    \/ \E d \in 1..nextId, a \in {1, MaxAmount} : recordPayment(d, a)
    \/ \E d \in 1..nextId : handleDeleteDebt(d)
    \/ \E c \in DOMAIN categories : handleDeleteCategory(c)
    \/ \E ty \in {"income", "expense"}, d \in LedgerDates,
          c \in DOMAIN categories \cup {NoCat}, ok \in BOOLEAN :
            recordTransaction(MaxAmount, ty, d, PaymentDescription, c, ok)
    \/ \E t \in 1..nextId, d \in LedgerDates, k \in LedgerKinds(DOMAIN categories) :
            saveEditedTransaction(t, d, MaxAmount, k[1], PaymentDescription, k[2])
    \/ \E t \in 1..nextId, m \in Months : handleDeleteTransaction(t, m)

SpecDebt == InitDebt /\ [][NextDebt]_vars

\* ----------------------------------------------------- goal handlers only
InitGoal == Start(GoalSteps)

NextGoal ==
    \/ createNewFile(FALSE)
    \/ prevMonth
    \/ nextMonth
    \/ addCategory("food", "")
    \/ \E c \in DOMAIN categories : handleDeleteCategory(c)
    \/ recordTransaction(MaxAmount, "income", Today, PaymentDescription, NoCat, TRUE)
    \/ \E c \in DOMAIN categories, v \in TxAmounts : updateCategoryAssigned(c, v)
    \/ \E n \in GoalNames, d \in GoalDates, a \in GoalAmounts : saveGoal(n, d, a)
    \/ \E g \in 1..nextId : handleDeleteGoal(g)
    \/ copyCategories
    \/ \E c \in DOMAIN categories, m \in Months : assignFunds(c, m, 1)
    \/ \E c \in DOMAIN categories : handleQuickBudget(c)

SpecGoal == InitGoal /\ [][NextGoal]_vars

\* ---------------------------------------------------- writes in flight
\* what the handlers of the page do not touch when a file operation settles
FileFrame ==
    UNCHANGED <<currentMonth, phase, nextId, paid, steps, limit, io, debtViewMethod>>

\* a catch block that puts the document of the file back in memory
writeFileCatch_revert(i, error) ==
    /\ writes' = Splice(writes, i)
    /\ fileHandle' = (error # "NotAllowedError" /\ fileHandle)
    /\ last' = IF error = "NotAllowedError" THEN "writeFile: NotAllowedError"
               ELSE "writeFile: error"
    /\ budgets' = disk.monthlyBudgets
    /\ debtList' = disk.debtList
    /\ goals' = disk.goals
    /\ categories' = disk.categories
    /\ readyToAssign' = disk.readyToAssign
    /\ UNCHANGED disk

\* the catch block of writeFile for the write in flight at position i: the
\* error is reported, and a NotAllowedError drops the file handle
writeFileCatch(i, error) ==
    /\ writes' = Splice(writes, i)
    /\ fileHandle' = (error # "NotAllowedError" /\ fileHandle)
    /\ last' = IF error = "NotAllowedError" THEN "writeFile: NotAllowedError"
               ELSE "writeFile: error"
    /\ UNCHANGED <<budgets, debtList, goals, categories, readyToAssign, disk>>

\* writeFile, `await fileHandle.createWritable()` of the write in flight at
\* position i settles: resolved, the document is built by JSON.stringify(data)
createWritable(i, outcome) ==
    /\ phase = "ready"
    /\ i \in DOMAIN writes
    /\ writes[i].stage = "createWritable"
    /\ IF outcome = "resolved"
       THEN /\ writes' = [writes EXCEPT ![i] = [stage |-> "close", data |-> <<>>,
                                                contents |-> stringifyData(@.data),
                                                instants |-> {}]]
            /\ last' = "createWritable"
            /\ UNCHANGED <<budgets, debtList, goals, categories, readyToAssign, disk,
                           fileHandle>>
       ELSE writeFileCatch(i, outcome)
    /\ FileFrame

\* writeFile, `await writable.write(...)` and `await writable.close()` of the
\* write in flight at position i settle: closed, the file holds the document
closeWritable(i, outcome) ==
    /\ phase = "ready"
    /\ i \in DOMAIN writes
    /\ writes[i].stage = "close"
    /\ IF outcome = "resolved"
       THEN /\ disk' = writes[i].contents
            /\ writes' = Splice(writes, i)
            /\ last' = "writeFile"
            /\ UNCHANGED <<budgets, debtList, goals, categories, readyToAssign, fileHandle>>
       ELSE writeFileCatch(i, outcome)
    /\ FileFrame

\* how an awaited file operation settles
Outcomes == {"resolved", "NotAllowedError", "error"}

InitFile == Begin(FileSteps, "inflight")

NextFile ==
    \/ createNewFile(FALSE)
    \/ addCategory("food", "")
    \/ recordTransaction(MaxAmount, "income", Today, PaymentDescription, NoCat, TRUE)
    \/ addDebt(DebtName, MaxAmount, 1, 1, 1)
    \/ \E d \in 1..nextId : handleDeleteDebt(d)
    \/ \E i \in 1..(FileSteps + 1), outcome \in Outcomes : createWritable(i, outcome)
    \/ \E i \in 1..(FileSteps + 1), outcome \in Outcomes : closeWritable(i, outcome)

SpecFile == InitFile /\ [][NextFile]_vars

\* ------------------------------- writes in flight that all go through
InitSaves == Begin(SaveSteps, "inflight")

NextSaves ==
    \/ createNewFile(FALSE)
    \/ addCategory("food", "")
    \/ recordTransaction(MaxAmount, "income", Today, PaymentDescription, NoCat, TRUE)
    \/ \E c \in DOMAIN categories : updateCategoryAssigned(c, 1)
    \/ \E i \in 1..(SaveSteps + 1) : createWritable(i, "resolved")
    \/ \E i \in 1..(SaveSteps + 1) : closeWritable(i, "resolved")

SpecSaves == InitSaves /\ [][NextSaves]_vars

\* ------------------------------------------ handlers that add transactions
InitBulk == Start(BulkSteps)

NextBulk ==
    \/ createNewFile(FALSE)
    \/ nextMonth
    \/ addCategory("food", "")
    \/ \E c \in DOMAIN categories : handleDeleteCategory(c)
    \/ \E d \in LedgerDates, k \in LedgerKinds(DOMAIN categories) :
            recordTransaction(MaxAmount, k[1], d, PaymentDescription, k[2], TRUE)
    \/ \E t \in 1..nextId, d \in LedgerDates, k \in LedgerKinds(DOMAIN categories) :
            saveEditedTransaction(t, d, MaxAmount, k[1], PaymentDescription, k[2])
    \/ \E lines \in BulkTexts(LedgerDates) : addBulkTransactions(lines)
    \/ addDebt(DebtName, MaxAmount, 1, 1, 1)
    \/ \E d \in 1..nextId : recordPayment(d, 1)

SpecBulk == InitBulk /\ [][NextBulk]_vars

\* ------------------------------ handlers that add transactions, one month
InitExpense == Start(ExpenseSteps)

NextExpense ==
    \/ createNewFile(FALSE)
    \/ addCategory("food", "")
    \/ \E c \in DOMAIN categories : handleDeleteCategory(c)
    \/ \E k \in LedgerKinds(DOMAIN categories) :
            recordTransaction(1, k[1], Today, PaymentDescription, k[2], TRUE)
    \/ \E t \in 1..nextId, k \in LedgerKinds(DOMAIN categories) :
            saveEditedTransaction(t, Today, 1, k[1], PaymentDescription, k[2])
    \/ \E lines \in BulkTexts({Today}) : addBulkTransactions(lines)
    \/ addDebt(DebtName, MaxAmount, 1, 1, 1)
    \/ \E d \in 1..nextId : recordPayment(d, 1)

SpecExpense == InitExpense /\ [][NextExpense]_vars

\* ------------------------------------------- every handler, one input each
InitMonths == Start(MonthSteps)

NextMonths ==
    \/ createNewFile(FALSE)
    \/ prevMonth
    \/ nextMonth
    \/ addCategory("food", "")
    \/ \E c \in DOMAIN categories : handleDeleteCategory(c)
    \/ \E d \in LedgerDates :
          recordTransaction(MaxAmount, "income", d, PaymentDescription, NoCat, TRUE)
    \/ \E t \in 1..nextId, d \in LedgerDates :
          saveEditedTransaction(t, d, MaxAmount, "income", PaymentDescription, NoCat)
    \/ \E t \in 1..nextId, m \in Months : handleDeleteTransaction(t, m)
    \/ \E c \in DOMAIN categories : updateCategoryAssigned(c, 1)
    \/ \E c \in DOMAIN categories, m \in Months : assignFunds(c, m, 1)
    \/ \E c \in DOMAIN categories : handleQuickBudget(c)
    \/ copyCategories
    \/ addDebt(DebtName, MaxAmount, 1, 1, 1)
    \/ \E d \in 1..nextId : recordPayment(d, 1)
    \/ \E d \in 1..nextId : handleDeleteDebt(d)
    \/ \E d \in GoalDates : saveGoal("food", d, MaxAmount)
    \/ \E g \in 1..nextId : handleDeleteGoal(g)

SpecMonths == InitMonths /\ [][NextMonths]_vars

\* ------------------------------------------------------- the debt table
\* Array.prototype.sort((a, b) => key(a) - key(b)) on a copy of the list, key
\* holding the key of every element: the element at position i goes behind
\* the elements that compare lower and behind the equal ones that stood
\* before it
sort(list, key) ==
    LET Rank(i) == 1 + Cardinality({j \in DOMAIN list :
                                       \/ key[j] - key[i] < 0
                                       \/ key[j] - key[i] = 0 /\ j < i})
    IN [k \in DOMAIN list |-> list[CHOOSE i \in DOMAIN list : Rank(i) = k]]

\* a table that shows the highest balance first
sortedDebtList_highestFirst(list, method) ==
    IF method = "snowball"
    THEN sort(list, [i \in DOMAIN list |-> 0 - list[i].currentBalance])
    ELSE sort(list, [i \in DOMAIN list |-> 0 - list[i].interestRate])

\* renderDebtTable: sortedDebtList, the copy of debtList it sorts and shows
sortedDebtList(list, method) ==
    IF method = "snowball"
    THEN sort(list, [i \in DOMAIN list |-> list[i].currentBalance])
    ELSE IF method = "avalanche"
         THEN sort(list, [i \in DOMAIN list |-> 0 - list[i].interestRate])
         ELSE list

\* debtSnowballBtn and debtAvalancheBtn click handlers
debtViewBtn(method) ==
    /\ phase = "ready"
    /\ debtViewMethod' = method
    /\ steps < limit
    /\ steps' = steps + 1
    /\ last' = "debtViewBtn"
    /\ UNCHANGED <<budgets, debtList, goals, categories, currentMonth, readyToAssign,
                   fileHandle, disk, writes, io, phase, nextId, paid, limit>>

InitSort == Start(SortSteps)

NextSort ==
    \/ createNewFile(FALSE)
    \/ \E c \in DebtBalances, r \in DebtBalances : addDebt(DebtName, MaxAmount, c, r, 1)
    \/ \E d \in 1..nextId : handleDeleteDebt(d)
    \/ debtViewBtn("snowball")
    \/ debtViewBtn("avalanche")

SpecSort == InitSort /\ [][NextSort]_vars

\* ------------------------------------------------------ later page loads
\* the DOMContentLoaded handler of a later page load: it finds the stored
\* handle, reads the file and runs initApp; month is the month of that day,
\* and the writes in flight of the page that was left are never closed
reload(month) ==
    /\ phase = "ready"
    /\ currentMonth' = month
    /\ fileHandle' = TRUE
    /\ Done("reload")
    /\ UNCHANGED nextId
    /\ initApp(readFile(disk), month, disk)

\* ------------------------------------------ files the page did not write
InitLoad == Start(LoadSteps)

NextLoad ==
    \/ overwritten
    \/ selectExistingFile(FALSE)
    \/ createNewFile(FALSE)
    \/ addCategory("food", "")
    \/ recordTransaction(MaxAmount, "income", Today, PaymentDescription, NoCat, TRUE)
    \/ addDebt(DebtName, MaxAmount, 1, 1, 1)
    \/ \E month \in Months : reload(month)

SpecLoad == InitLoad /\ [][NextLoad]_vars

InitRound == Start(RoundSteps)

NextRound ==
    \/ createNewFile(FALSE)
    \/ nextMonth
    \/ recordTransaction(MaxAmount, "income", Today, PaymentDescription, NoCat, TRUE)
    \/ addDebt(DebtName, MaxAmount, MaxAmount, 1, 1)
    \/ \E d \in 1..nextId : recordPayment(d, 1)
    \/ \E d \in GoalDates : saveGoal("food", d, MaxAmount)
    \/ \E month \in Months : reload(month)

SpecRound == InitRound /\ [][NextRound]_vars

\* ------------------------------------------------------------------------
\* The variant that caches per-category figures (src/script.js, third script,
\* lines 1951-2925).  It keeps its state in the object `state`; the model
\* holds state.budgets, state.categories, state.currentMonth and
\* state.readyToAssign in the variables of the same names.  A month's
\* categories map an id to [id, name, budgeted, activity, available], a
\* transaction is [id, categoryId, description, amount, date].  A form value
\* is the set of the numbers it spells: {} for an empty field.
\* ------------------------------------------------------------------------
\* amounts typed into the forms of this variant
CacheAmounts == {{}, {0}, {MaxAmount}}
CacheTxAmounts == {{}, {-1}, {1}}

\* parseAmount(str)
parseAmount(str) == IF str = {} THEN 0 ELSE CHOOSE n \in str : TRUE

\* validateInput(value, 'number', required): TRUE unless it throws
validateInput(value, required) == ~(required /\ value = {})

\* dataManager.ensureCurrentMonth()
ensureCurrentMonth(b, month) ==
    IF month \in DOMAIN b THEN b ELSE (month :> EmptyMonth) @@ b

\* delete object[key]
Delete(f, key) == [k \in DOMAIN f \ {key} |-> f[k]]

\* the state after dataManager.load() of an empty document
InitCache ==
    /\ budgets = ensureCurrentMonth(<<>>, TodayMonth)
    /\ debtList = <<>>
    /\ goals = <<>>
    /\ categories = <<>>
    /\ currentMonth = TodayMonth
    /\ readyToAssign = 0
    /\ fileHandle = FALSE
    /\ disk = EmptyDocument
    /\ writes = <<>>
    /\ io = "settled"
    /\ debtViewMethod = "snowball"
    /\ phase = "ready"
    /\ nextId = 0
    /\ paid = 0
    /\ steps = 0
    /\ limit = CacheSteps
    /\ last = "none"

\* what the handlers of this variant never write
CacheFrame == UNCHANGED <<debtList, goals, fileHandle, disk, writes, phase, paid>>

\* handlers.changeMonth(direction)
changeMonth(direction) ==
    /\ currentMonth + direction \in Months
    /\ currentMonth' = currentMonth + direction
    /\ budgets' = ensureCurrentMonth(budgets, currentMonth + direction)
    /\ Done("changeMonth")
    /\ UNCHANGED <<categories, readyToAssign, nextId>>
    /\ CacheFrame

\* budget.addCategory(name, budgetedAmount)
budget_addCategory(name, budgetedAmount) ==
    /\ IF name = ""
       THEN /\ UNCHANGED <<budgets, categories, readyToAssign, nextId>>
            /\ Rejected
       ELSE LET categoryId == nextId + 1
                amount == parseAmount(budgetedAmount)
            IN /\ budgets' = [budgets EXCEPT ![currentMonth].categories =
                                 (categoryId :> [id |-> categoryId, name |-> name,
                                                 budgeted |-> amount, activity |-> 0,
                                                 available |-> amount]) @@ @]
               /\ categories' = (categoryId :> [id |-> categoryId, name |-> name])
                                    @@ categories
               /\ readyToAssign' = readyToAssign - amount
               /\ nextId' = nextId + 1
               /\ Done("budget.addCategory")
    /\ UNCHANGED currentMonth
    /\ CacheFrame

\* budget.updateCategory(categoryId, 'budgeted', value)
budget_updateCategory(categoryId, value) ==
    /\ IF ~validateInput(value, TRUE)
          \/ categoryId \notin DOMAIN budgets[currentMonth].categories
       THEN /\ UNCHANGED <<budgets, readyToAssign>>
            /\ Rejected
       ELSE LET category == budgets[currentMonth].categories[categoryId]
                oldValue == category.budgeted
                difference == parseAmount(value) - oldValue
            IN /\ budgets' = [budgets EXCEPT ![currentMonth].categories[categoryId] =
                                 [category EXCEPT
                                     !.budgeted = parseAmount(value),
                                     !.available = parseAmount(value) + category.activity]]
               /\ readyToAssign' = readyToAssign - difference
               /\ Done("budget.updateCategory")
    /\ UNCHANGED <<categories, currentMonth, nextId>>
    /\ CacheFrame

\* budget.deleteCategory(categoryId), confirmed, from the row of a category of
\* the displayed month
budget_deleteCategory(categoryId) ==
    /\ categoryId \in DOMAIN budgets[currentMonth].categories
    /\ readyToAssign' = readyToAssign + budgets[currentMonth].categories[categoryId].budgeted
    /\ budgets' = [budgets EXCEPT
                       ![currentMonth].categories = Delete(@, categoryId),
                       ![currentMonth].transactions =
                           SelectSeq(@, LAMBDA t : t.categoryId # categoryId)]
    /\ categories' = Delete(categories, categoryId)
    /\ Done("budget.deleteCategory")
    /\ UNCHANGED <<currentMonth, nextId>>
    /\ CacheFrame

\* budget.addTransaction(categoryId, description, amount)
budget_addTransaction(categoryId, description, amount) ==
    /\ IF description = "" \/ ~validateInput(amount, TRUE)
          \/ categoryId \notin DOMAIN budgets[currentMonth].categories
       THEN /\ UNCHANGED <<budgets, nextId>>
            /\ Rejected
       ELSE LET category == budgets[currentMonth].categories[categoryId]
                transaction == [id |-> nextId + 1, categoryId |-> categoryId,
                                description |-> description,
                                amount |-> parseAmount(amount), date |-> Today]
            IN /\ budgets' = [budgets EXCEPT
                                 ![currentMonth].transactions = Append(@, transaction),
                                 ![currentMonth].categories[categoryId] =
                                     [category EXCEPT
                                         !.activity = @ + transaction.amount,
                                         !.available = category.budgeted
                                                         + category.activity
                                                         + transaction.amount]]
               /\ nextId' = nextId + 1
               /\ Done("budget.addTransaction")
    /\ UNCHANGED <<categories, currentMonth, readyToAssign>>
    /\ CacheFrame

\* budget.editTransaction(transactionId, description, amount)
budget_editTransaction(transactionId, description, amount) ==
    /\ IF description = "" \/ ~validateInput(amount, TRUE)
          \/ ~\E i \in DOMAIN budgets[currentMonth].transactions :
                 budgets[currentMonth].transactions[i].id = transactionId
       THEN /\ UNCHANGED budgets
            /\ Rejected
       ELSE LET index == findIndex(budgets[currentMonth].transactions, transactionId)
                transaction == budgets[currentMonth].transactions[index]
                category == budgets[currentMonth].categories[transaction.categoryId]
                activity == category.activity - transaction.amount + parseAmount(amount)
            IN /\ budgets' = [budgets EXCEPT
                                 ![currentMonth].transactions[index] =
                                     [transaction EXCEPT !.amount = parseAmount(amount),
                                                         !.description = description],
                                 ![currentMonth].categories[transaction.categoryId] =
                                     [category EXCEPT
                                         !.activity = activity,
                                         !.available = category.budgeted + activity]]
               /\ Done("budget.editTransaction")
    /\ UNCHANGED <<categories, currentMonth, readyToAssign, nextId>>
    /\ CacheFrame

\* budget.deleteTransaction(transactionId), confirmed, from the row of a
\* transaction of the displayed month
budget_deleteTransaction(transactionId) ==
    /\ \E i \in DOMAIN budgets[currentMonth].transactions :
          budgets[currentMonth].transactions[i].id = transactionId
    /\ LET transactionIndex == findIndex(budgets[currentMonth].transactions, transactionId)
           transaction == budgets[currentMonth].transactions[transactionIndex]
           category == budgets[currentMonth].categories[transaction.categoryId]
       IN budgets' = [budgets EXCEPT
                         ![currentMonth].categories[transaction.categoryId] =
                             [category EXCEPT
                                 !.activity = @ - transaction.amount,
                                 !.available = category.budgeted + category.activity
                                                 - transaction.amount],
                         ![currentMonth].transactions = Splice(@, transactionIndex)]
    /\ Done("budget.deleteTransaction")
    /\ UNCHANGED <<categories, currentMonth, readyToAssign, nextId>>
    /\ CacheFrame

NextCache ==
    \/ changeMonth(-1)
    \/ changeMonth(1)
    \/ \E n \in GoalNames, a \in CacheAmounts : budget_addCategory(n, a)
    \/ \E c \in 1..nextId, v \in CacheAmounts : budget_updateCategory(c, v)
    \/ \E c \in 1..nextId : budget_deleteCategory(c)
    \/ \E c \in 1..nextId, a \in CacheTxAmounts : budget_addTransaction(c, "d", a)
    \/ \E t \in 1..nextId, a \in CacheTxAmounts : budget_editTransaction(t, "e", a)
    \/ \E t \in 1..nextId : budget_deleteTransaction(t)

SpecCache == InitCache /\ [][NextCache]_vars

\* ------------------------------------------------- figures of the claims
RECURSIVE SumFn(_)
\* the sum of the values of a function with a finite domain
SumFn(f) ==
    IF DOMAIN f = {} THEN 0
    ELSE LET x == CHOOSE y \in DOMAIN f : TRUE
         IN f[x] + SumFn([y \in DOMAIN f \ {x} |-> f[y]])

\* sum of the amounts of the income transactions of all months
IncomeTotal ==
    SumFn([m \in DOMAIN budgets |->
              SumFn([i \in DOMAIN budgets[m].transactions |->
                        IF budgets[m].transactions[i].type = "income"
                        THEN budgets[m].transactions[i].amount ELSE 0])])

\* sum of the budgeted allocations of all months
BudgetedTotal == SumFn([m \in DOMAIN budgets |-> SumFn(budgets[m].categories)])

\* budgeted(month, cat), 0 without an allocation entry
Budgeted(month, cat) ==
    IF month \in DOMAIN budgets /\ cat \in DOMAIN budgets[month].categories
    THEN budgets[month].categories[cat] ELSE 0

\* activity(month, cat): the expense amounts of that month with that categoryId
Activity(month, cat) ==
    IF month \notin DOMAIN budgets THEN 0
    ELSE SumFn([i \in {j \in DOMAIN budgets[month].transactions :
                          /\ budgets[month].transactions[j].type = "expense"
                          /\ budgets[month].transactions[j].categoryId = cat} |->
                   budgets[month].transactions[i].amount])

\* the step just taken is a handler of this name that went through
StepBy(op) == steps' = steps + 1 /\ last' = op

\* C1: from an empty document, in every reachable state readyToAssign equals
\* the income of all months, minus the budgeted allocations of all months,
\* minus the recorded debt payments, plus the amounts refunded by category
\* deletions.
C1_PoolInvariant ==
    phase = "ready" =>
        readyToAssign = IncomeTotal - BudgetedTotal - paid + RefundedByDeletion

\* C2: every updateCategoryAssigned call whose delta (newBudgeted -
\* oldBudgeted) would make the pool negative is rejected and leaves the pool
\* and the allocations unchanged; every other call lowers the pool by exactly
\* its delta and sets the allocation, so after any sequence of calls the pool
\* is its initial value minus the deltas of the accepted calls.
C2_SetAllocationDelta ==
    /\ [](\A c \in getAllActiveCategories(categories), v \in Amounts :
            exceedsPool(v - Assigned(getMonthData(budgets, currentMonth), currentMonth, c),
                        readyToAssign)
                <=> readyToAssign - (v - Budgeted(currentMonth, c)) < 0)
    /\ [][\A c \in DOMAIN categories, v \in Amounts :
            updateCategoryAssigned(c, v) =>
                LET delta == v - Budgeted(currentMonth, c) IN
                    IF readyToAssign - delta < 0
                    THEN UNCHANGED <<readyToAssign, budgets>>
                    ELSE /\ readyToAssign' = readyToAssign - delta
                         /\ Assigned(budgets', currentMonth, c) = v
                         /\ \A m \in Months, o \in DOMAIN categories :
                               (m # currentMonth \/ o # c)
                                   => Assigned(budgets', m, o) = Budgeted(m, o)]_vars

\* an allocation was raised by updateCategoryAssigned, and a further raise
\* would exceed the pool
C2_Witness ==
    /\ last = "updateCategoryAssigned"
    /\ \E c \in getAllActiveCategories(categories) :
          /\ Budgeted(currentMonth, c) > 0
          /\ \E v \in Amounts : readyToAssign - (v - Budgeted(currentMonth, c)) < 0

\* C3: no updateCategoryAssigned, assignFunds, handleQuickBudget or
\* recordPayment step takes readyToAssign from a non-negative value to a
\* negative one.
C3_PoolStaysNonNegative ==
    [][(/\ last' \in {"updateCategoryAssigned", "assignFunds", "handleQuickBudget",
                      "recordPayment"}
        /\ readyToAssign >= 0)
          => readyToAssign' >= 0]_vars

\* a quick budget has just used up the whole pool
C3_Witness ==
    /\ last = "handleQuickBudget"
    /\ readyToAssign = 0
    /\ \E c \in getAllActiveCategories(categories) :
          /\ Budgeted(currentMonth, c) > 0
          /\ Budgeted(currentMonth, c) = Budgeted(currentMonth - 1, c)

\* C4: for every month and category, the available figure is budgeted minus
\* activity, activity being the sum of that month's expense amounts carrying
\* the category (no allocation entry counts as budgeted 0).
C4_Available ==
    \A m \in Months, c \in DOMAIN categories \cup {NoCat} :
        calculateCategoryAvailable(budgets, m, c) = Budgeted(m, c) - Activity(m, c)

\* a transaction handler has just run and some category is both budgeted and
\* spent from
C4_Witness ==
    /\ last \in {"recordTransaction", "saveEditedTransaction", "handleDeleteTransaction"}
    /\ \E m \in Months, c \in DOMAIN categories :
          Budgeted(m, c) > 0 /\ Activity(m, c) > 0

\* C5: a single-transaction add whose date, amount and description equal
\* those of a transaction stored in the ledger of its target month inserts
\* nothing and leaves the pool unchanged unless the user confirms.
C5_DuplicateNotInserted ==
    [][\A a \in TxAmounts, ty \in {"income", "expense"}, d \in TxDates,
          de \in Descriptions, c \in DOMAIN categories \cup {NoCat} :
          (/\ recordTransaction(a, ty, d, de, c, FALSE)
           /\ \E t \in AllTransactions(budgets) :
                 /\ MonthOf(d) \in DOMAIN budgets
                 /\ \E i \in DOMAIN budgets[MonthOf(d)].transactions :
                       budgets[MonthOf(d)].transactions[i] = t
                 /\ t.date = d /\ t.amount = a /\ t.description = de)
              => /\ AllTransactions(budgets') = AllTransactions(budgets)
                 /\ readyToAssign' = readyToAssign]_vars

\* C6: every transaction is stored in the ledger of the month of its own
\* date, and in no other ledger.
C6_StoredUnderOwnMonth ==
    \A m \in DOMAIN budgets : \A i \in DOMAIN budgets[m].transactions :
        /\ MonthOf(budgets[m].transactions[i].date) = m
        /\ \A o \in DOMAIN budgets : \A j \in DOMAIN budgets[o].transactions :
              budgets[o].transactions[j].id = budgets[m].transactions[i].id
                  => (o = m /\ j = i)

\* C7: cancelling a file picker (choose new file, select existing file,
\* create new file) leaves budgets, categories, debts, goals and readyToAssign
\* as they were.
C7_CancelKeepsState ==
    [][(\/ changeFile(TRUE) \/ selectExistingFile(TRUE) \/ createNewFile(TRUE))
          => UNCHANGED aggregate]_vars

\* C8: no two active categories have names that are equal ignoring case.
C8_UniqueActiveNames ==
    \A c \in getAllActiveCategories(categories), o \in getAllActiveCategories(categories) :
        c # o => toLowerCase(categories[c].name) # toLowerCase(categories[o].name)

\* C9: a rejected operation (validation failure, insufficient pool, id not
\* found, skipped duplicate) leaves budgets, with its set of month keys,
\* categories, debts, goals and readyToAssign as they were.
C9_RejectedChangesNothing ==
    [][steps' = steps /\ phase = "ready" => UNCHANGED aggregate]_vars

\* C10: deleting a transaction removes exactly that transaction, keeps the
\* order of the others and every allocation, and lowers readyToAssign by its
\* amount when it is an income and not at all when it is an expense.
C10_DeleteTransaction ==
    [][StepBy("handleDeleteTransaction") =>
          \E t \in AllTransactions(budgets) :
              /\ DOMAIN budgets' = DOMAIN budgets
              /\ \A m \in DOMAIN budgets :
                    /\ budgets'[m].categories = budgets[m].categories
                    /\ budgets'[m].transactions =
                          SelectSeq(budgets[m].transactions, LAMBDA x : x.id # t.id)
              /\ AllTransactions(budgets') = AllTransactions(budgets) \ {t}
              /\ readyToAssign' =
                    readyToAssign - (IF t.type = "income" THEN t.amount ELSE 0)
              /\ UNCHANGED <<debtList, goals, categories>>]_vars

\* the expense recorded by a payment has been deleted and the pool still
\* carries the payment
C10_Witness ==
    /\ last = "handleDeleteTransaction"
    /\ paid > 0
    /\ \A t \in AllTransactions(budgets) : t.type = "income"
    /\ AllTransactions(budgets) # {}
    /\ readyToAssign = IncomeTotal - paid

\* the places <<month, index>> where a transaction with this id is stored
Occurrences(b, id) ==
    {p \in UNION {{<<m, i>> : i \in DOMAIN b[m].transactions} : m \in DOMAIN b} :
        b[p[1]].transactions[p[2]].id = id}

\* the number of transactions stored in all ledgers
TransactionCount(b) == SumFn([m \in DOMAIN b |-> Len(b[m].transactions)])

\* the ledger of a month without the transaction with this id, <<>> for a
\* month that has no ledger
Others(b, month, id) ==
    IF month \in DOMAIN b
    THEN SelectSeq(b[month].transactions, LAMBDA x : x.id # id)
    ELSE <<>>

\* the step is the edit whose inputs are the fields of this record: the id of
\* the transaction edited and the new date, amount, type, description and
\* category typed into the form
EditedTo(new) ==
    saveEditedTransaction(new.id, new.date, new.amount, new.type, new.description,
                          new.categoryId)

\* C11: after an accepted edit the id of the edited transaction occurs exactly
\* once in all ledgers, in the ledger of the month of newDate; the number of
\* transactions is unchanged and no other transaction is modified or moved.
C11_EditMovesTransaction ==
    [][StepBy("saveEditedTransaction") =>
        /\ \E new \in AllTransactions(budgets') : EditedTo(new)
        /\ \A new \in AllTransactions(budgets') :
              EditedTo(new)
                  => /\ Cardinality(Occurrences(budgets', new.id)) = 1
                     /\ \A p \in Occurrences(budgets', new.id) : p[1] = MonthOf(new.date)
                     /\ TransactionCount(budgets') = TransactionCount(budgets)
                     /\ \A m \in Months :
                           Others(budgets', m, new.id) = Others(budgets, m, new.id)]_vars

\* an edit has just moved a transaction behind a younger one of another month
C11_Witness ==
    /\ last = "saveEditedTransaction"
    /\ \E m \in DOMAIN budgets : \E i \in DOMAIN budgets[m].transactions :
          \E j \in DOMAIN budgets[m].transactions :
              /\ i < j
              /\ budgets[m].transactions[j].id < budgets[m].transactions[i].id
              /\ MonthOf(budgets[m].transactions[j].date) = m

\* the ledger of a month, <<>> for a month that has no ledger
Ledger(b, month) == IF month \in DOMAIN b THEN b[month].transactions ELSE <<>>

\* what a transaction of this type and amount adds to the pool
IncomeEffect(type, amount) == IF type = "income" THEN amount ELSE 0

\* C12: an accepted edit changes readyToAssign by exactly (newAmount if newType
\* is income, else 0) minus (oldAmount if oldType is income, else 0), whatever
\* the old and the new type are; an expense-to-expense edit leaves the pool
\* alone.
C12_EditPoolDelta ==
    [][StepBy("saveEditedTransaction") =>
        /\ \E new \in AllTransactions(budgets') : EditedTo(new)
        /\ \A new \in AllTransactions(budgets'), old \in AllTransactions(budgets) :
              (old.id = new.id /\ EditedTo(new))
                  => /\ readyToAssign' = readyToAssign + IncomeEffect(new.type, new.amount)
                                             - IncomeEffect(old.type, old.amount)
                     /\ (old.type = "expense" /\ new.type = "expense")
                           => readyToAssign' = readyToAssign]_vars

\* an edit has turned the only income into an expense of a category that is
\* younger than the transaction, and the pool gave the income back
C12_Witness ==
    /\ last = "saveEditedTransaction"
    /\ \E t \in AllTransactions(budgets) :
          t.type = "expense" /\ t.id < t.categoryId
    /\ IncomeTotal = 0
    /\ readyToAssign = 0

\* the step is the add whose inputs are the fields of this record, with this
\* answer to the duplicate confirmation
AddedAs(t, addAnyway) ==
    recordTransaction(t.amount, t.type, t.date, t.description, t.categoryId, addAnyway)

\* C13: an accepted add appends exactly one transaction to the ledger of the
\* month of its date; an income raises readyToAssign by its amount, an expense
\* leaves readyToAssign and every budgeted allocation as they were.
C13_AddTransaction ==
    [][StepBy("recordTransaction") =>
        /\ \E t \in AllTransactions(budgets') \ AllTransactions(budgets), ok \in BOOLEAN :
              AddedAs(t, ok)
        /\ \A t \in AllTransactions(budgets') \ AllTransactions(budgets), ok \in BOOLEAN :
              AddedAs(t, ok) =>
                  LET m == MonthOf(t.date) IN
                  /\ Occurrences(budgets, t.id) = {}
                  /\ TransactionCount(budgets') = TransactionCount(budgets) + 1
                  /\ Ledger(budgets', m) = Append(Ledger(budgets, m), t)
                  /\ \A o \in Months \ {m} : Ledger(budgets', o) = Ledger(budgets, o)
                  /\ t.type = "income" => readyToAssign' = readyToAssign + t.amount
                  /\ t.type = "expense"
                        => /\ readyToAssign' = readyToAssign
                           /\ \A o \in Months, c \in DOMAIN categories :
                                 Assigned(budgets', o, c) = Budgeted(o, c)]_vars

\* an expense has just been added behind an income of the same month, against
\* a budgeted category, and the pool holds what the income left
C13_Witness ==
    /\ last = "recordTransaction"
    /\ \E m \in DOMAIN budgets : \E i \in DOMAIN budgets[m].transactions :
          /\ i = Len(budgets[m].transactions)
          /\ budgets[m].transactions[i].type = "expense"
          /\ Budgeted(m, budgets[m].transactions[i].categoryId) > 0
          /\ \E j \in 1..(i - 1) : budgets[m].transactions[j].type = "income"
    /\ readyToAssign = IncomeTotal - BudgetedTotal
    /\ readyToAssign > 0

\* the larger of two numbers
Max(x, y) == IF x >= y THEN x ELSE y

\* C14: a payment with amount > readyToAssign is rejected and changes nothing;
\* an accepted payment sets currentBalance to max(0, currentBalance - amount),
\* appends {date, amount} to paymentHistory, lowers readyToAssign by the full
\* amount even when it exceeds currentBalance, and records one expense
\* transaction of that amount; currentBalance is never negative.
C14_RecordPayment ==
    /\ [](\A i \in DOMAIN debtList : debtList[i].currentBalance >= 0)
    /\ [][\A i \in DOMAIN debtList, a \in Amounts :
            recordPayment(debtList[i].id, a) =>
                IF a > readyToAssign
                THEN UNCHANGED vars
                ELSE a > 0 =>
                    /\ DOMAIN debtList' = DOMAIN debtList
                    /\ debtList'[i].currentBalance = Max(0, debtList[i].currentBalance - a)
                    /\ debtList'[i].paymentHistory =
                          Append(debtList[i].paymentHistory, [date |-> Today, amount |-> a])
                    /\ \A j \in DOMAIN debtList \ {i} : debtList'[j] = debtList[j]
                    /\ readyToAssign' = readyToAssign - a
                    /\ TransactionCount(budgets') = TransactionCount(budgets) + 1
                    /\ \E t \in AllTransactions(budgets') :
                          /\ AllTransactions(budgets') = AllTransactions(budgets) \cup {t}
                          /\ t \notin AllTransactions(budgets)
                          /\ t.type = "expense"
                          /\ t.amount = a]_vars

\* a payment larger than the balance has just cleared a debt and the pool
\* carries the whole payment
C14_Witness ==
    /\ last = "recordPayment"
    /\ \E i \in DOMAIN debtList :
          /\ debtList[i].currentBalance = 0
          /\ Len(debtList[i].paymentHistory) = 1
          /\ debtList[i].paymentHistory[1].amount = MaxAmount
    /\ paid = MaxAmount
    /\ readyToAssign = IncomeTotal - paid

\* the categories of the registry named 'Debt Payments', active or not
reservedCategories(cats) == {c \in DOMAIN cats : cats[c].name = DebtPaymentsName}

\* C15: where only payments create categories, the registry never holds more
\* than one category named 'Debt Payments' (it is created at most once,
\* whatever is deactivated between payments), and the expense recorded by
\* every payment references that category.
C15_OneReservedCategory ==
    /\ [](Cardinality(reservedCategories(categories)) <= 1)
    /\ [][StepBy("recordPayment") =>
            \A t \in AllTransactions(budgets') \ AllTransactions(budgets) :
                reservedCategories(categories') = {t.categoryId}]_vars

\* C16: every goal with a name, a positive total and a due date after the
\* start of the present month is accepted whatever the pool holds, and leaves
\* readyToAssign as it was while the budgeted allocations of all months rise
\* by totalAmount.
C16_GoalLeavesPool ==
    [][\A n \in GoalNames, d \in GoalDates, a \in GoalAmounts :
          (/\ saveGoal(n, d, a)
           /\ n # "" /\ a > 0 /\ d > MonthOf(Today) * DaysPerMonth)
              => /\ StepBy("saveGoal")
                 /\ readyToAssign' = readyToAssign
                 /\ BudgetedTotal' = BudgetedTotal + a]_vars

\* a goal has just been funded although the pool had nothing to give
C16_Witness ==
    /\ last = "saveGoal"
    /\ IncomeTotal = 0
    /\ readyToAssign = 0
    /\ BudgetedTotal > 0

\* the months whose ledger carries an allocation entry for the category
FundedMonths(b, cat) == {m \in DOMAIN b : cat \in DOMAIN b[m].categories}

\* the rule of the goal add: the category created by an accepted add is
\* budgeted totalAmount / monthsBetween in the monthsBetween consecutive
\* ledgers from the present month to the due month, and has no entry elsewhere
GoalFundingRule ==
    StepBy("saveGoal") =>
        \A n \in GoalNames, d \in GoalDates, a \in GoalAmounts :
            saveGoal(n, d, a) =>
                LET monthsBetween == (MonthOf(d) - MonthOf(Today)) + 1 IN
                \E cat \in DOMAIN categories' \ DOMAIN categories :
                    /\ Cardinality(FundedMonths(budgets', cat)) = monthsBetween
                    /\ FundedMonths(budgets', cat) = MonthOf(Today)..MonthOf(d)
                    /\ \A m \in FundedMonths(budgets', cat) :
                          /\ budgets'[m].categories[cat] * monthsBetween = a
                          /\ budgets'[m].categories[cat] = goals'[Len(goals')].monthlyContribution

\* the example of the claim at the scale of the months modelled: the gap
\* between the creation month and the due month (12 in the claim), the total
\* (1200 in the claim) and the due date
ExampleGap == MaxMonth - TodayMonth
ExampleTotal == Factorial(ExampleGap + 1)
ExampleDue == (TodayMonth + ExampleGap) * DaysPerMonth

\* C17 as stated: the rule of the goal add, and so a goal of ExampleTotal due
\* ExampleGap calendar months after the creation month is budgeted
\* ExampleTotal / ExampleGap in exactly ExampleGap ledgers.
C17_GoalFundingAsStated ==
    [][/\ GoalFundingRule
       /\ \A n \in GoalNames :
             (saveGoal(n, ExampleDue, ExampleTotal) /\ StepBy("saveGoal")) =>
                 \E cat \in DOMAIN categories' \ DOMAIN categories :
                     /\ Cardinality(FundedMonths(budgets', cat)) = ExampleGap
                     /\ \A m \in FundedMonths(budgets', cat) :
                           budgets'[m].categories[cat] * ExampleGap = ExampleTotal]_vars

\* C17 amended: the rule of the goal add, and so a goal of ExampleTotal due
\* ExampleGap calendar months after the creation month is budgeted
\* ExampleTotal / (ExampleGap + 1) in exactly ExampleGap + 1 ledgers.
C17_GoalFunding ==
    [][/\ GoalFundingRule
       /\ \A n \in GoalNames :
             (saveGoal(n, ExampleDue, ExampleTotal) /\ StepBy("saveGoal")) =>
                 \E cat \in DOMAIN categories' \ DOMAIN categories :
                     /\ Cardinality(FundedMonths(budgets', cat)) = ExampleGap + 1
                     /\ \A m \in FundedMonths(budgets', cat) :
                           budgets'[m].categories[cat] * (ExampleGap + 1) = ExampleTotal]_vars

\* a goal due in the last month modelled has just been funded in every month
\* from the present one, while a later month is displayed
C17_Witness ==
    /\ last = "saveGoal"
    /\ currentMonth > MonthOf(Today)
    /\ \E cat \in DOMAIN categories :
          /\ categories[cat].parentCategory = "Financial Goals"
          /\ FundedMonths(budgets, cat) = MonthOf(Today)..MaxMonth
          /\ \A m \in FundedMonths(budgets, cat) :
                budgets[m].categories[cat] * (ExampleGap + 1) = ExampleTotal

\* the category created by the add of this goal: the goal handler takes the
\* uuid of the goal and then the uuid of its category
BackingCategory(goal) == goal.id + 1

\* the budgeted amounts of a category, added up over all months
BudgetedOverMonths(cat) == SumFn([m \in DOMAIN budgets |-> Budgeted(m, cat)])

\* C18: the progress shown for every goal is the sum over all months of the
\* budgeted amounts of its own backing category, divided by its totalAmount
\* (in percent), also when another category carries the name of the goal.
C18_ProgressOfOwnCategory ==
    \A i \in DOMAIN goals :
        progress(budgets, categories, goals[i])[1] * goals[i].totalAmount
            = BudgetedOverMonths(BackingCategory(goals[i])) * 100
                  * progress(budgets, categories, goals[i])[2]

\* C19: deleting a goal removes that goal record and nothing else: every
\* category stays in the registry with its isActive flag, every allocation of
\* every month and readyToAssign are unchanged.
C19_DeleteGoalOnly ==
    [][StepBy("handleDeleteGoal") =>
          /\ \E i \in DOMAIN goals :
                goals' = [j \in 1..(Len(goals) - 1) |->
                             IF j < i THEN goals[j] ELSE goals[j + 1]]
          /\ categories' = categories
          /\ DOMAIN budgets' = DOMAIN budgets
          /\ \A m \in DOMAIN budgets : budgets'[m].categories = budgets[m].categories
          /\ readyToAssign' = readyToAssign
          /\ UNCHANGED debtList]_vars

\* the only goal has just been deleted and its category is still active and
\* budgeted
C19_Witness ==
    /\ last = "handleDeleteGoal"
    /\ goals = <<>>
    /\ \E c \in getAllActiveCategories(categories) :
          /\ categories[c].parentCategory = "Financial Goals"
          /\ BudgetedOverMonths(c) > 0

\* C20: an accepted quick budget leaves the displayed month's budgeted for the
\* category equal to the previous month's and lowers readyToAssign by exactly
\* delta = prevBudgeted - currentBudgeted; it is accepted only when delta > 0
\* and delta <= readyToAssign.
C20_QuickBudget ==
    [][StepBy("handleQuickBudget") =>
        \A c \in DOMAIN categories :
            handleQuickBudget(c) =>
                LET delta == Budgeted(currentMonth - 1, c) - Budgeted(currentMonth, c) IN
                    /\ delta > 0
                    /\ delta <= readyToAssign
                    /\ Assigned(budgets', currentMonth, c) = Budgeted(currentMonth - 1, c)
                    /\ readyToAssign' = readyToAssign - delta
                    /\ \A m \in Months, o \in DOMAIN categories :
                          (m # currentMonth \/ o # c)
                              => Assigned(budgets', m, o) = Budgeted(m, o)]_vars

\* a quick budget has just topped a category up to last month's figure and
\* the pool has paid for both months
C20_Witness ==
    /\ last = "handleQuickBudget"
    /\ readyToAssign >= 0
    /\ readyToAssign = IncomeTotal - BudgetedTotal - paid
    /\ \E c \in getAllActiveCategories(categories) :
          /\ Budgeted(currentMonth - 1, c) > 0
          /\ Budgeted(currentMonth, c) = Budgeted(currentMonth - 1, c)

\* the quick budget of this category has nothing to copy: the previous month
\* has no entry for it, or the displayed month already holds that much
NothingToCopy(c) ==
    \/ currentMonth - 1 \notin DOMAIN budgets
    \/ c \notin DOMAIN budgets[currentMonth - 1].categories
    \/ Budgeted(currentMonth - 1, c) - Budgeted(currentMonth, c) <= 0

\* C21: a quick budget for a category without an allocation entry in the
\* previous month, or with prevBudgeted - currentBudgeted <= 0, is rejected:
\* it counts as no step and leaves every allocation and readyToAssign alone.
C21_QuickBudgetRejected ==
    [][\A c \in DOMAIN categories :
          (NothingToCopy(c) /\ handleQuickBudget(c))
              => /\ steps' = steps
                 /\ UNCHANGED <<budgets, readyToAssign>>]_vars

\* the displayed month holds more than the previous month for a category that
\* has an entry in both, and another quick budget would find nothing to copy
C21_Witness ==
    /\ phase = "ready"
    /\ \E c \in getAllActiveCategories(categories) :
          /\ currentMonth - 1 \in DOMAIN budgets
          /\ c \in DOMAIN budgets[currentMonth - 1].categories
          /\ Budgeted(currentMonth, c) > Budgeted(currentMonth - 1, c)
          /\ ENABLED handleQuickBudget(c)

\* the allocation entries of a month, none for a month without a ledger
Entries(b, month) == IF month \in DOMAIN b THEN b[month].categories ELSE <<>>

\* the active categories without an allocation entry in that month
MissingIn(month) ==
    {c \in DOMAIN categories : categories[c].isActive /\ c \notin DOMAIN Entries(budgets, month)}

\* C22: copying the categories of the displayed month forward creates an
\* entry with budgeted 0 in the next month for exactly the active categories
\* without one, changes no entry that exists, leaves readyToAssign and every
\* other month alone, counts the entries it created, and leaves nothing for
\* a second run to create.
C22_CopyCategories ==
    [][copyCategories =>
        LET next == currentMonth + 1 IN
        /\ DOMAIN budgets' = DOMAIN budgets \cup {next}
        /\ DOMAIN budgets'[next].categories
              = DOMAIN Entries(budgets, next) \cup MissingIn(next)
        /\ \A c \in MissingIn(next) : budgets'[next].categories[c] = 0
        /\ \A c \in DOMAIN Entries(budgets, next) :
              budgets'[next].categories[c] = Entries(budgets, next)[c]
        /\ budgets'[next].transactions = Ledger(budgets, next)
        /\ \A m \in DOMAIN budgets \ {next} : budgets'[m] = budgets[m]
        /\ readyToAssign' = readyToAssign
        /\ categoriesCopied(categories, getMonthData(budgets, next)[next])
              = Cardinality(DOMAIN budgets'[next].categories)
                  - Cardinality(DOMAIN Entries(budgets, next))
        /\ categoriesCopied(categories', budgets'[next]) = 0
        /\ UNCHANGED <<categories, debtList, goals>>]_vars

\* a copy has just created an entry in the next month beside one that was
\* there with money in it, for a category that the displayed month budgets
C22_Witness ==
    /\ last = "copyCategories"
    /\ currentMonth + 1 \in DOMAIN budgets
    /\ \E c \in DOMAIN budgets[currentMonth + 1].categories :
          budgets[currentMonth + 1].categories[c] > 0
    /\ \E c \in getAllActiveCategories(categories) :
          /\ c \in DOMAIN Entries(budgets, currentMonth)
          /\ c \in DOMAIN Entries(budgets, currentMonth + 1)
          /\ budgets[currentMonth + 1].categories[c] = 0
          /\ categories[c].parentCategory = ""

\* C23: deactivating a category twice gives the state that deactivating it
\* once gives, and a deactivation changes nothing but the isActive flag of
\* that category: every allocation entry of every month, every transaction
\* and readyToAssign stay as they were.
C23_DeactivateIdempotent ==
    /\ [](\A c \in DOMAIN categories :
            deactivate(deactivate(categories, c), c) = deactivate(categories, c))
    /\ [][StepBy("handleDeleteCategory") =>
            /\ \E c \in DOMAIN categories :
                  /\ DOMAIN categories' = DOMAIN categories
                  /\ ~categories'[c].isActive
                  /\ categories'[c].name = categories[c].name
                  /\ categories'[c].parentCategory = categories[c].parentCategory
                  /\ \A o \in DOMAIN categories \ {c} : categories'[o] = categories[o]
            /\ budgets' = budgets
            /\ readyToAssign' = readyToAssign
            /\ UNCHANGED <<debtList, goals>>]_vars

\* a category has just been deactivated and its allocation is still in the
\* ledgers
C23_Witness ==
    /\ last = "handleDeleteCategory"
    /\ \E c \in DOMAIN categories :
          /\ ~categories[c].isActive
          /\ BudgetedOverMonths(c) > 0

\* C24: every allocation key of every monthly ledger is the id of a category
\* of the registry, active or not, whatever allocation, copy, category and
\* goal handlers have run.
C24_AllocationKeysRegistered ==
    \A m \in DOMAIN budgets : DOMAIN budgets[m].categories \subseteq DOMAIN categories

\* an allocation handler has just run while a deactivated category still has
\* an entry and two months hold entries
C24_Witness ==
    /\ last \in {"assignFunds", "handleQuickBudget", "copyCategories", "updateCategoryAssigned"}
    /\ \E m \in DOMAIN budgets : \E c \in DOMAIN budgets[m].categories :
          ~categories[c].isActive
    /\ Cardinality({m \in DOMAIN budgets : DOMAIN budgets[m].categories # {}}) >= 2

\* C25: a category is never physically deleted: an id that is in the registry
\* is in the registry after every step, and a deletion leaves the registry
\* with the same ids.
C25_NeverPhysicallyDeleted ==
    [][DOMAIN categories \subseteq DOMAIN categories']_vars

\* the step just taken is the catch block of writeFile
WriteFailed ==
    /\ steps' = steps
    /\ Len(writes') = Len(writes) - 1
    /\ last' \in {"writeFile: NotAllowedError", "writeFile: error"}

\* C26: a write that fails, with permission denied or with an I/O error,
\* leaves budgets, categories, debts, goals and readyToAssign as the handlers
\* left them.
C26_FailedWriteKeepsState ==
    [][WriteFailed => UNCHANGED aggregate]_vars

\* a write was refused after income was recorded: the income is in the pool
\* and not in the file
C26_Witness ==
    /\ last = "writeFile: NotAllowedError"
    /\ ~fileHandle
    /\ readyToAssign > disk.readyToAssign

\* the document a save of the present state writes
Document == stringify(budgets, debtList, goals, categories, readyToAssign)

\* the state holds a category, a transaction of each type, a debt with a
\* payment and a goal
HasEveryEntity ==
    /\ DOMAIN categories # {}
    /\ \E t \in AllTransactions(budgets) : t.type = "income"
    /\ \E t \in AllTransactions(budgets) : t.type = "expense"
    /\ \E i \in DOMAIN debtList : debtList[i].paymentHistory # <<>>
    /\ goals # <<>>

IsPermutation(view, list) ==
    /\ Len(view) = Len(list)
    /\ \A i \in DOMAIN list :
          Cardinality({k \in DOMAIN view : view[k] = list[i]})
              = Cardinality({k \in DOMAIN list : list[k] = list[i]})

\* C28: the debt table shows a permutation of the stored debt list, by
\* non-decreasing currentBalance under Snowball and by non-increasing
\* interestRate under Avalanche, and choosing an order leaves the stored list,
\* its order and every field of every debt, as it was.
C28_SortedView ==
    /\ [](LET view == sortedDebtList(debtList, debtViewMethod) IN
            /\ IsPermutation(view, debtList)
            /\ \A i \in DOMAIN view, j \in DOMAIN view :
                  i < j => IF debtViewMethod = "snowball"
                           THEN view[i].currentBalance <= view[j].currentBalance
                           ELSE view[i].interestRate >= view[j].interestRate)
    /\ [][StepBy("debtViewBtn") => debtList' = debtList]_vars

\* the debts are shown by interest rate, in an order that is neither the
\* stored one nor the one by balance
C28_Witness ==
    /\ last = "debtViewBtn"
    /\ debtViewMethod = "avalanche"
    /\ sortedDebtList(debtList, "avalanche") # debtList
    /\ sortedDebtList(debtList, "snowball") # debtList
    /\ sortedDebtList(debtList, "snowball") # sortedDebtList(debtList, "avalanche")

\* C29: deleting a debt removes that debt, payment history included, and
\* nothing else: the other debts keep their order and fields, readyToAssign is
\* not refunded, and every ledger keeps its transactions, the expenses of the
\* payments made among them, and its allocations.
C29_DeleteDebtOnly ==
    [][StepBy("handleDeleteDebt") =>
          /\ \E i \in DOMAIN debtList :
                debtList' = [j \in 1..(Len(debtList) - 1) |->
                                IF j < i THEN debtList[j] ELSE debtList[j + 1]]
          /\ readyToAssign' = readyToAssign
          /\ budgets' = budgets
          /\ UNCHANGED <<goals, categories>>]_vars

\* the only debt has just been deleted after a payment: the expense of the
\* payment is still in a ledger and the pool has not got the payment back
C29_Witness ==
    /\ last = "handleDeleteDebt"
    /\ debtList = <<>>
    /\ paid > 0
    /\ \E t \in AllTransactions(budgets) :
          t.type = "expense" /\ t.description = PaymentDescription
    /\ readyToAssign = IncomeTotal - BudgetedTotal - paid

\* C30: getMonthData on a month that has a ledger leaves every ledger as it
\* is, and on a month without one registers an empty ledger under that key
\* and leaves the others as they are; no handler of a ledger, category, debt
\* or goal removes a month key, whether it goes through or rejects its input.
C30_LazyLedger ==
    /\ [](\A m \in Months :
            LET b == getMonthData(budgets, m) IN
                /\ m \in DOMAIN budgets => b = budgets
                /\ m \notin DOMAIN budgets =>
                      /\ DOMAIN b = DOMAIN budgets \cup {m}
                      /\ b[m] = EmptyMonth
                      /\ \A o \in DOMAIN budgets : b[o] = budgets[o])
    /\ [][DOMAIN budgets \subseteq DOMAIN budgets']_vars

\* the next month has just been shown for the first time: it got an empty
\* ledger, and the ledger that holds a transaction is as it was
C30_Witness ==
    /\ last = "nextMonth"
    /\ budgets[currentMonth] = EmptyMonth
    /\ \E m \in DOMAIN budgets : budgets[m].transactions # <<>>

\* JSON.stringify(data) has just built the document of the write in flight
\* at position i
Stringified(i) ==
    /\ last' = "createWritable"
    /\ i \in DOMAIN writes
    /\ writes[i].stage = "createWritable"
    /\ writes'[i].stage = "close"

\* C31: every document a save writes is the document of the state the memory
\* was in at one instant between the call of saveDataToFile() and the write:
\* its readyToAssign belongs to the state its budgets, categories, debts and
\* goals belong to, also when another handler ran while the save was waiting
\* for the file.
C31_DocumentOfOneInstant ==
    [][\A i \in DOMAIN writes :
          Stringified(i) => writes'[i].contents \in writes[i].instants]_vars

\* C32: when no write is in flight and every write went through, the file
\* holds the document of the state in memory, in whatever order the writes
\* were closed.
C32_FileCatchesUp ==
    (phase = "ready" /\ writes = <<>>) => disk = Document

\* C33: an updateCategoryAssigned that does not raise the displayed month's
\* allocation of the category (newBudgeted <= oldBudgeted) is accepted and
\* credits readyToAssign with oldBudgeted - newBudgeted, whatever the pool
\* holds, a negative pool left by a deleted income included.
C33_LoweringAccepted ==
    \A c \in getAllActiveCategories(categories), v \in Amounts :
        (phase = "ready" /\ steps < limit /\ v <= Budgeted(currentMonth, c))
            => ENABLED (/\ updateCategoryAssigned(c, v)
                        /\ StepBy("updateCategoryAssigned")
                        /\ Assigned(budgets', currentMonth, c) = v
                        /\ readyToAssign' = readyToAssign + (Budgeted(currentMonth, c) - v))

\* the budgeted amount the displayed month's ledger holds for a category of
\* the caching variant, 0 without an entry
CachedBudgeted(b, c) ==
    IF c \in DOMAIN b[currentMonth].categories
    THEN b[currentMonth].categories[c].budgeted ELSE 0

\* C34: a budget.addCategory or budget.updateCategory that goes through
\* raises no category's budgeted amount by more than readyToAssign held: an
\* increase above the pool is rejected.
C34_RaiseGuarded ==
    [][(last' \in {"budget.addCategory", "budget.updateCategory"} /\ steps' = steps + 1)
          => \A c \in DOMAIN budgets'[currentMonth].categories :
                CachedBudgeted(budgets', c) - CachedBudgeted(budgets, c) <= readyToAssign]_vars

\* C35: in the caching variant, after each operation of the budget every
\* category of the displayed month stores as activity the sum of the amounts
\* of the month's transactions that carry its id, and as available its
\* budgeted amount minus that activity.
C35_CachedFigures ==
    last \in {"budget.addCategory", "budget.updateCategory", "budget.addTransaction",
              "budget.editTransaction", "budget.deleteTransaction",
              "budget.deleteCategory"}
        => \A c \in DOMAIN budgets[currentMonth].categories :
              LET category == budgets[currentMonth].categories[c]
                  carried == SelectSeq(budgets[currentMonth].transactions,
                                       LAMBDA t : t.categoryId = c)
              IN /\ category.activity = SumSeq([i \in DOMAIN carried |-> carried[i].amount])
                 /\ category.available = category.budgeted - category.activity

\* C36: every expense transaction of every ledger carries a category id that
\* is not null and is the id of a category of the registry; a
\* recordTransaction or saveEditedTransaction of type expense with no
\* category selected changes nothing.
C36_ExpenseHasCategory ==
    /\ \A t \in AllTransactions(budgets) :
          t.type = "expense" => (t.categoryId # NoCat /\ t.categoryId \in DOMAIN categories)
    /\ \A d \in LedgerDates :
          /\ ~ENABLED (/\ recordTransaction(MaxAmount, "expense", d, PaymentDescription,
                                            NoCat, TRUE)
                       /\ vars' # vars)
          /\ \A t \in 1..nextId :
                ~ENABLED (/\ saveEditedTransaction(t, d, MaxAmount, "expense",
                                                   PaymentDescription, NoCat)
                          /\ vars' # vars)

\* a bulk add has just put an expense under the category its line names,
\* next to an income that carries no category
C36_Witness ==
    /\ last = "addBulkTransactions"
    /\ \E t \in AllTransactions(budgets) :
          /\ t.id = nextId
          /\ t.type = "expense"
          /\ t.categoryId \in getAllActiveCategories(categories)
    /\ \E t \in AllTransactions(budgets) : t.type = "income" /\ t.categoryId = NoCat

\* the transactions a step has added
Inserted == {t \in AllTransactions(budgets') : t.id > nextId}

\* both carry the same date, amount and description
SameEntry(t, u) ==
    t.date = u.date /\ t.amount = u.amount /\ t.description = u.description

\* C38: a bulk add inserts no line that has the date, amount and description
\* of a transaction already in the ledger of the line's month, an earlier
\* line of the same text included, whichever month is displayed; it leaves
\* the transactions there were as they are and raises readyToAssign by the
\* sum of the amounts of the income lines it inserted.
C38_BulkSkipsDuplicates ==
    [][StepBy("addBulkTransactions") =>
        /\ \A t \in Inserted :
              \A i \in DOMAIN budgets'[MonthOf(t.date)].transactions :
                 LET u == budgets'[MonthOf(t.date)].transactions[i] IN
                     u.id < t.id => ~SameEntry(t, u)
        /\ AllTransactions(budgets) \subseteq AllTransactions(budgets')
        /\ readyToAssign' = readyToAssign
                              + SumFn([t \in {u \in Inserted : u.type = "income"} |-> t.amount])]_vars

\* C37: a selectExistingFile or a page load that reads a file that is not
\* valid JSON does not go on as if it had read the empty default document:
\* it does not start the app, and leaves the state and the file as they
\* were.
C37_UnparsableIsNotEmpty ==
    [][(/\ disk = Unparsable
        /\ \/ (phase = "loading" /\ last' = "selectExistingFile")
           \/ StepBy("reload"))
          => /\ phase' = phase
             /\ UNCHANGED <<aggregate, disk>>]_vars
====
